---- MODULE Spec2Model ----
(***************************************************************************)
(* sprintify navigation: the ruler (axis model) of rulers/base.py and the  *)
(* selection / drag-and-drop engine of interaction/selection.py.           *)
(*                                                                         *)
(* Python floats are modelled as exact rationals <<n, d>> (d > 0, lowest   *)
(* terms); None is the empty tuple.                                        *)
(***************************************************************************)
EXTENDS Integers, Sequences, FiniteSets, TLC

VARIABLES
    ruler,      \* SpecRuler: the BaseRuler object under test
    nav,        \* number of zoom / pan calls made so far (bounded by MaxNav)
    t_call,     \* last transform call: <<value, pixel>> or None
    g_call,     \* last get_value_at call: <<pixel, value>> or None
    ev,         \* last recorded call or event with its arguments, or None
    item,       \* InteractiveItem objects: id -> [x, y, width, height, selected]
    dd,         \* the DragDropManager object
    sel,        \* the SelectionManager object
    handler,    \* the InteractionHandler object (item list, press and hover state)
    obs         \* what the caller observed of the last calls (return values, callbacks)

rulerVars == <<ruler, nav, t_call, g_call, ev>>
dragVars == <<item, dd, sel, handler, obs>>
vars == <<ruler, nav, t_call, g_call, ev, item, dd, sel, handler, obs>>

None == <<>>

-----------------------------------------------------------------------------
(* Exact rational arithmetic standing for Python's float operators.        *)

Abs(n) == IF n < 0 THEN -n ELSE n

RECURSIVE GCD(_, _)
GCD(a, b) == IF b = 0 THEN a ELSE GCD(b, a % b)

Rat(n, d) ==
    LET s == IF d < 0 THEN -1 ELSE 1
        g == GCD(Abs(n), Abs(d))
    IN  <<(s * n) \div g, (s * d) \div g>>

Num(n) == <<n, 1>>

RAdd(a, b) ==
    LET g == GCD(a[2], b[2])
    IN  Rat(a[1] * (b[2] \div g) + b[1] * (a[2] \div g), a[2] * (b[2] \div g))

RNeg(a) == <<-a[1], a[2]>>

RSub(a, b) == RAdd(a, RNeg(b))

RMul(a, b) ==
    LET g1 == GCD(Abs(a[1]), b[2])
        g2 == GCD(Abs(b[1]), a[2])
    IN  Rat((a[1] \div g1) * (b[1] \div g2), (a[2] \div g2) * (b[2] \div g1))

RDiv(a, b) == RMul(a, Rat(b[2], b[1]))

RLt(a, b) == RSub(a, b)[1] < 0

RLe(a, b) == RSub(a, b)[1] <= 0

RMax(a, b) == IF RLt(a, b) THEN b ELSE a

RMin(a, b) == IF RLt(b, a) THEN b ELSE a

\* Python truthiness of an optional number: None and 0 are falsy.
Truthy(v) == v # None /\ v[1] # 0

-----------------------------------------------------------------------------
(* BaseRuler                                                               *)

\* zoom_factor = 1.1 if zoom_in else 0.93
ZoomInFactor == <<11, 10>>
ZoomOutFactor == <<93, 100>>

BaseRulerInit(window_start, window_stop, length, visible_start, visible_stop, reverse) ==
    LET vs == IF Truthy(visible_start) THEN visible_start ELSE window_start
        ve == IF Truthy(visible_stop) THEN visible_stop ELSE window_stop
    IN  [window_start |-> window_start,
         window_stop |-> window_stop,
         visible_start |-> vs,
         visible_stop |-> ve,
         window_length |-> RSub(window_stop, window_start),
         visible_length |-> RSub(ve, vs),
         reverse |-> reverse,
         length |-> length]

\* transform scaled by the window length instead of the visible length.
transform_by_window(r, value) ==
    LET ratio == IF r.reverse
                 THEN RDiv(RSub(r.visible_stop, value), r.window_length)
                 ELSE RDiv(RSub(value, r.visible_start), r.window_length)
    IN  RMul(ratio, r.length)

transform(r, value) ==
    LET ratio == IF r.reverse
                 THEN RDiv(RSub(r.visible_stop, value), r.visible_length)
                 ELSE RDiv(RSub(value, r.visible_start), r.visible_length)
    IN  RMul(ratio, r.length)

\* get_value_at that ignores the reverse flag.
get_value_at_noreverse(r, x) ==
    LET normalized == RMax(Num(0), RMin(Num(1), RDiv(x, r.length)))
    IN  RAdd(r.visible_start, RMul(normalized, r.visible_length))

\* get_value_at without the clamp of the normalized pixel to [0, 1].
get_value_at_unclamped(r, x) ==
    LET normalized == RDiv(x, r.length)
    IN  IF r.reverse
        THEN RSub(r.visible_stop, RMul(normalized, r.visible_length))
        ELSE RAdd(r.visible_start, RMul(normalized, r.visible_length))

get_value_at(r, x) ==
    LET normalized == RMax(Num(0), RMin(Num(1), RDiv(x, r.length)))
    IN  IF r.reverse
        THEN RSub(r.visible_stop, RMul(normalized, r.visible_length))
        ELSE RAdd(r.visible_start, RMul(normalized, r.visible_length))

get_delta_width(r, delta) == RMul(r.visible_length, RDiv(delta, r.length))

\* zoom with the two zoom factors exchanged.
zoom_swapped(r, zoom_in, mouse_pos) ==
    LET value_at_mouse == get_value_at(r, mouse_pos)
        zoom_factor == IF zoom_in THEN ZoomOutFactor ELSE ZoomInFactor
        new_visible_length == RMin(RDiv(r.visible_length, zoom_factor), r.window_length)
        offset == RDiv(RSub(value_at_mouse, r.visible_start), r.visible_length)
        vs0 == RSub(value_at_mouse, RMul(offset, new_visible_length))
        vs1 == RMax(r.window_start, RMin(vs0, RSub(r.window_stop, new_visible_length)))
    IN  [r EXCEPT !.visible_start = vs1,
                  !.visible_stop = RAdd(vs1, new_visible_length),
                  !.visible_length = new_visible_length]

\* zoom that keeps the centre of the visible range fixed instead of the value at
\* mouse_pos.
zoom_centered(r, zoom_in, mouse_pos) ==
    LET zoom_factor == IF zoom_in THEN ZoomInFactor ELSE ZoomOutFactor
        nvl0 == RDiv(r.visible_length, zoom_factor)
        new_visible_length == IF RLt(r.window_length, nvl0) THEN r.window_length ELSE nvl0
        centre == RAdd(r.visible_start, RMul(<<1, 2>>, r.visible_length))
        vs0 == RSub(centre, RMul(<<1, 2>>, new_visible_length))
        vs1 == RMax(r.window_start, RMin(vs0, RSub(r.window_stop, new_visible_length)))
    IN  [r EXCEPT !.visible_start = vs1,
                  !.visible_stop = RAdd(vs1, new_visible_length),
                  !.visible_length = new_visible_length]

zoom(r, zoom_in, mouse_pos) ==
    LET value_at_mouse == get_value_at(r, mouse_pos)
        zoom_factor == IF zoom_in THEN ZoomInFactor ELSE ZoomOutFactor
        nvl0 == RDiv(r.visible_length, zoom_factor)
        new_visible_length == IF RLt(r.window_length, nvl0) THEN r.window_length ELSE nvl0
        offset == RDiv(RSub(value_at_mouse, r.visible_start), r.visible_length)
        vs0 == RSub(value_at_mouse, RMul(offset, new_visible_length))
        ve0 == RAdd(vs0, new_visible_length)
        \* if self.visible_start < self.window_start
        lo == RLt(vs0, r.window_start)
        vs1 == IF lo THEN r.window_start ELSE vs0
        ve1 == IF lo THEN RAdd(vs1, new_visible_length) ELSE ve0
        \* if self.visible_stop > self.window_stop
        hi == RLt(r.window_stop, ve1)
        ve2 == IF hi THEN r.window_stop ELSE ve1
        vs2 == IF hi THEN RSub(ve2, new_visible_length) ELSE vs1
    IN  [r EXCEPT !.visible_start = vs2,
                  !.visible_stop = ve2,
                  !.visible_length = RSub(ve2, vs2)]

\* pan without the clamp against the window bounds.
pan_unclamped(r, delta) ==
    LET value_delta == RMul(RDiv(delta, r.length), r.visible_length)
        vs == RSub(r.visible_start, value_delta)
    IN  [r EXCEPT !.visible_start = vs,
                  !.visible_stop = RAdd(vs, r.visible_length)]

pan(r, delta) ==
    LET value_delta == RMul(RDiv(delta, r.length), r.visible_length)
        vs == IF RLt(Num(0), delta)
              THEN RMax(r.window_start, RSub(r.visible_start, value_delta))
              ELSE RMin(RSub(r.window_stop, r.visible_length),
                        RSub(r.visible_start, value_delta))
    IN  [r EXCEPT !.visible_start = vs,
                  !.visible_stop = RAdd(vs, r.visible_length)]

-----------------------------------------------------------------------------
(* ItemRuler                                                               *)

\* zoom_factor = 1.2 if zoom_in else 0.9
ItemZoomInFactor == <<6, 5>>
ItemZoomOutFactor == <<9, 10>>

\* int(value): truncation toward zero.
Trunc(a) == IF a[1] < 0 THEN -((-a[1]) \div a[2]) ELSE a[1] \div a[2]

\* ItemRuler.__init__: the BaseRuler fields plus the item fields.
ItemRulerInit(item_count, length, visible_start, visible_stop, reverse, default_pixels_per_item, min_pixels_per_item, max_pixels_per_item) ==
    LET defaulted == visible_start = None /\ visible_stop = None
        visible_items == RMax(Num(1), RDiv(length, default_pixels_per_item))
        vs == IF defaulted THEN Num(0) ELSE visible_start
        ve == IF defaulted THEN RMin(visible_items, Num(item_count)) ELSE visible_stop
        base == BaseRulerInit(Num(0), Num(item_count), length, vs, ve, reverse)
    IN  [window_start |-> base.window_start,
         window_stop |-> base.window_stop,
         visible_start |-> base.visible_start,
         visible_stop |-> base.visible_stop,
         window_length |-> base.window_length,
         visible_length |-> base.visible_length,
         reverse |-> base.reverse,
         length |-> base.length,
         item_count |-> item_count,
         default_pixels_per_item |-> default_pixels_per_item,
         min_pixels_per_item |-> min_pixels_per_item,
         max_pixels_per_item |-> max_pixels_per_item]

IsItemRuler(r) == "item_count" \in DOMAIN r

\* ItemRuler.zoom without the clamp of the new density to [min, max] pixels per item.
ItemRuler_zoom_unclamped(r, zoom_in, mouse_pos) ==
    LET zoom_factor == IF zoom_in THEN ItemZoomInFactor ELSE ItemZoomOutFactor
        new_pixels_per_item == RMul(RDiv(r.length, r.visible_length), zoom_factor)
        new_visible_length == RMin(RDiv(r.length, new_pixels_per_item), r.window_length)
        value_at_mouse == get_value_at(r, mouse_pos)
        offset == RDiv(RSub(value_at_mouse, r.visible_start), r.visible_length)
        vs0 == RSub(value_at_mouse, RMul(offset, new_visible_length))
        vs1 == RMax(r.window_start, RMin(vs0, RSub(r.window_stop, new_visible_length)))
    IN  [r EXCEPT !.visible_start = vs1,
                  !.visible_stop = RAdd(vs1, new_visible_length),
                  !.visible_length = new_visible_length]

\* ItemRuler.zoom
ItemRuler_zoom(r, zoom_in, mouse_pos) ==
    LET current_pixels_per_item == IF RLt(Num(0), r.visible_length)
                                   THEN RDiv(r.length, r.visible_length)
                                   ELSE r.default_pixels_per_item
        zoom_factor == IF zoom_in THEN ItemZoomInFactor ELSE ItemZoomOutFactor
        new_pixels_per_item == RMax(r.min_pixels_per_item,
                                    RMin(RMul(current_pixels_per_item, zoom_factor),
                                         r.max_pixels_per_item))
        new_visible_length == RMin(RDiv(r.length, new_pixels_per_item), r.window_length)
        value_at_mouse == get_value_at(r, mouse_pos)
        offset == IF RLt(Num(0), r.visible_length)
                  THEN RDiv(RSub(value_at_mouse, r.visible_start), r.visible_length)
                  ELSE <<1, 2>>
        vs0 == RSub(value_at_mouse, RMul(offset, new_visible_length))
        ve0 == RAdd(vs0, new_visible_length)
        lo == RLt(vs0, r.window_start)
        vs1 == IF lo THEN r.window_start ELSE vs0
        ve1 == IF lo THEN RAdd(vs1, new_visible_length) ELSE ve0
        hi == RLt(r.window_stop, ve1)
        ve2 == IF hi THEN r.window_stop ELSE ve1
        vs2 == IF hi THEN RSub(ve2, new_visible_length) ELSE vs1
    IN  [r EXCEPT !.visible_start = vs2,
                  !.visible_stop = ve2,
                  !.visible_length = RSub(ve2, vs2)]

\* get_item_at without the clamp to [0, item_count - 1].
get_item_at_unclamped(r, y) == Trunc(get_value_at(r, y))

\* ItemRuler.get_item_at
get_item_at(r, y) ==
    LET item_index == Trunc(get_value_at(r, y))
        upper == IF item_index < r.item_count - 1 THEN item_index ELSE r.item_count - 1
    IN  IF 0 > upper THEN 0 ELSE upper

-----------------------------------------------------------------------------
(* InteractiveItem and DragDropManager                                     *)

Items == {"A", "B", "C"}

NoHandle == "none"
ResizeHandles == {"left", "right", "top", "bottom"}

\* ItemCapabilities of the three items: A keeps the defaults, B overrides the size
\* limits and allows all four edges, C can be neither moved nor resized.
ItemCaps ==
    [i \in Items |->
        CASE i = "A" -> [can_move |-> TRUE, can_resize |-> TRUE,
                         resize_handles |-> {"left", "right"},
                         min_width |-> None, min_height |-> None,
                         max_width |-> None, max_height |-> None]
          [] i = "B" -> [can_move |-> TRUE, can_resize |-> TRUE,
                         resize_handles |-> ResizeHandles,
                         min_width |-> Num(2), min_height |-> None,
                         max_width |-> Num(4), max_height |-> None]
          [] OTHER   -> [can_move |-> FALSE, can_resize |-> FALSE,
                         resize_handles |-> {"left", "right"},
                         min_width |-> None, min_height |-> None,
                         max_width |-> None, max_height |-> None]]

Geom(x, y, w, h) == [x |-> x, y |-> y, width |-> w, height |-> h]

InteractiveItemInit(x, y, w, h) ==
    [x |-> x, y |-> y, width |-> w, height |-> h, selected |-> FALSE]

InitItems ==
    [i \in Items |->
        CASE i = "A" -> InteractiveItemInit(Num(2), Num(0), Num(4), Num(1))
          [] i = "B" -> InteractiveItemInit(Num(8), Num(0), Num(3), Num(1))
          [] OTHER   -> InteractiveItemInit(Num(10), <<1, 2>>, Num(2), Num(1))]

\* The rulers handed to update_drag: 10 pixels per unit in x, 50 pixels per row in y.
XRuler == BaseRulerInit(Num(0), Num(100), Num(1000), None, None, FALSE)
YRuler == BaseRulerInit(Num(0), Num(10), Num(500), None, None, FALSE)

StateOf(it) == Geom(it.x, it.y, it.width, it.height)

Floor(a) == a[1] \div a[2]

\* Caller-supplied snap functions, by kind: "floor" is lambda v: math.floor(v),
\* "grid2" is lambda v: 2 * math.floor(v / 2), "unset" is None.
SnapKinds == {"unset", "floor", "grid2"}

_apply_snap(snap_func, value, it) ==
    CASE snap_func = "unset" -> value
      [] snap_func = "floor" -> Num(Floor(value))
      [] OTHER -> Num(2 * Floor(RDiv(value, Num(2))))

\* A fallback that ignores the resize-specific function.
OrElse_second(a, b) == b

\* a or b on two optional callables
OrElse(a, b) == IF a # "unset" THEN a ELSE b

\* 0.1, the default minimum size
DefaultMinSize == <<1, 10>>

\* The LEFT and TOP branches of _apply_resize on one axis: the edge at the item's
\* position moves by delta; returns <<position, size>>.
ResizeLeading_unanchored(o_pos, o_size, delta, min_s, max_s) ==
    LET new_size == RSub(o_size, delta)
    IN  IF RLt(new_size, min_s)
        THEN <<RAdd(o_pos, delta), min_s>>
        ELSE IF Truthy(max_s) /\ RLt(max_s, new_size)
        THEN <<RAdd(o_pos, delta), max_s>>
        ELSE <<RAdd(o_pos, delta), new_size>>

ResizeLeading(o_pos, o_size, delta, min_s, max_s) ==
    LET new_size == RSub(o_size, delta)
    IN  IF RLt(new_size, min_s)
        THEN <<RAdd(o_pos, RSub(o_size, min_s)), min_s>>
        ELSE IF Truthy(max_s) /\ RLt(max_s, new_size)
        THEN <<RAdd(o_pos, RSub(o_size, max_s)), max_s>>
        ELSE <<RAdd(o_pos, delta), new_size>>

\* The RIGHT and BOTTOM branches of _apply_resize on one axis: returns the size.
ResizeTrailing(o_size, delta, min_s, max_s) ==
    LET new_size == RAdd(o_size, delta)
    IN  IF Truthy(max_s)
        THEN RMin(max_s, RMax(min_s, new_size))
        ELSE RMax(min_s, new_size)

_apply_resize(d, it, cap, handle, dx, dy, ox, oy, ow, oh) ==
    LET min_w0 == IF cap.min_width # None THEN cap.min_width ELSE d.min_width
        min_h0 == IF cap.min_height # None THEN cap.min_height ELSE d.min_height
        max_w == IF cap.max_width # None THEN cap.max_width ELSE d.max_width
        max_h == IF cap.max_height # None THEN cap.max_height ELSE d.max_height
        min_w == IF min_w0 = None THEN DefaultMinSize ELSE min_w0
        min_h == IF min_h0 = None THEN DefaultMinSize ELSE min_h0
    IN  CASE handle = "left" ->
               LET r == ResizeLeading(ox, ow, dx, min_w, max_w)
               IN  [it EXCEPT !.x = r[1], !.width = r[2]]
          [] handle = "right" ->
               [it EXCEPT !.width = ResizeTrailing(ow, dx, min_w, max_w)]
          [] handle = "top" ->
               LET r == ResizeLeading(oy, oh, dy, min_h, max_h)
               IN  [it EXCEPT !.y = r[1], !.height = r[2]]
          [] handle = "bottom" ->
               [it EXCEPT !.height = ResizeTrailing(oh, dy, min_h, max_h)]
          [] OTHER -> it

\* Caller-supplied on_drag_update hooks, by kind: "none" returns None, "pin_y"
\* returns (item.x, 0.0), "pin_x4" returns (2.0, item.y, item.width, item.height).
HookKinds == {"unset", "none", "pin_y", "pin_x4"}

\* Hooks returning longer tuples: "pin_y3" returns (item.x, 0.0, 9.0), "wide5" returns
\* (item.x, item.y, 7.0, item.height, 9.0).
LongHookKinds == {"pin_y3", "wide5"}

on_drag_update_result(hook, it) ==
    CASE hook = "pin_y" -> <<it.x, Num(0)>>
      [] hook = "pin_x4" -> <<Num(2), it.y, it.width, it.height>>
      [] hook = "pin_y3" -> <<it.x, Num(0), Num(9)>>
      [] hook = "wide5" -> <<it.x, it.y, Num(7), it.height, Num(9)>>
      [] OTHER -> <<>>

\* The loop body of update_drag without the on_drag_update step.
UpdateDragItem_nohook(d, it, cap, orig, raw_dx, raw_dy) ==
    LET resize_snap_x == OrElse(d.snap_resize_x_func, d.snap_cx_func)
        resize_snap_y == OrElse(d.snap_resize_y_func, d.snap_cy_func)
        ox == orig.x
        oy == orig.y
        ow == orig.width
        oh == orig.height
    IN  CASE d.resize_mode = "left" ->
               LET new_x == _apply_snap(resize_snap_x, RAdd(ox, raw_dx), it)
               IN  _apply_resize(d, it, cap, "left", RSub(new_x, ox), Num(0), ox, oy, ow, oh)
          [] d.resize_mode = "right" ->
               LET new_x == _apply_snap(resize_snap_x, RAdd(RAdd(ox, ow), raw_dx), it)
               IN  _apply_resize(d, it, cap, "right", RSub(new_x, RAdd(ox, ow)), Num(0),
                                 ox, oy, ow, oh)
          [] d.resize_mode = "top" ->
               LET new_y == _apply_snap(resize_snap_y, RAdd(oy, raw_dy), it)
               IN  _apply_resize(d, it, cap, "top", Num(0), RSub(new_y, oy), ox, oy, ow, oh)
          [] d.resize_mode = "bottom" ->
               LET new_y == _apply_snap(resize_snap_y, RAdd(RAdd(oy, oh), raw_dy), it)
               IN  _apply_resize(d, it, cap, "bottom", Num(0), RSub(new_y, RAdd(oy, oh)),
                                 ox, oy, ow, oh)
          [] OTHER ->
               [it EXCEPT !.x = _apply_snap(d.snap_cx_func, RAdd(ox, raw_dx), it),
                          !.y = _apply_snap(d.snap_cy_func, RAdd(oy, raw_dy), it)]

\* The body of update_drag's loop for one dragged item and its snapshot.
UpdateDragItem(d, it, cap, orig, raw_dx, raw_dy) ==
    LET resize_snap_x == OrElse(d.snap_resize_x_func, d.snap_cx_func)
        resize_snap_y == OrElse(d.snap_resize_y_func, d.snap_cy_func)
        ox == orig.x
        oy == orig.y
        ow == orig.width
        oh == orig.height
        resized ==
            CASE d.resize_mode = "left" ->
                   LET new_x == _apply_snap(resize_snap_x, RAdd(ox, raw_dx), it)
                   IN  _apply_resize(d, it, cap, "left", RSub(new_x, ox), Num(0), ox, oy, ow, oh)
              [] d.resize_mode = "right" ->
                   LET new_x == _apply_snap(resize_snap_x, RAdd(RAdd(ox, ow), raw_dx), it)
                   IN  _apply_resize(d, it, cap, "right", RSub(new_x, RAdd(ox, ow)), Num(0),
                                     ox, oy, ow, oh)
              [] d.resize_mode = "top" ->
                   LET new_y == _apply_snap(resize_snap_y, RAdd(oy, raw_dy), it)
                   IN  _apply_resize(d, it, cap, "top", Num(0), RSub(new_y, oy), ox, oy, ow, oh)
              [] d.resize_mode = "bottom" ->
                   LET new_y == _apply_snap(resize_snap_y, RAdd(RAdd(oy, oh), raw_dy), it)
                   IN  _apply_resize(d, it, cap, "bottom", Num(0), RSub(new_y, RAdd(oy, oh)),
                                     ox, oy, ow, oh)
              [] OTHER -> it
        moved == [it EXCEPT !.x = _apply_snap(d.snap_cx_func, RAdd(ox, raw_dx), it),
                            !.y = _apply_snap(d.snap_cy_func, RAdd(oy, raw_dy), it)]
        it1 == IF d.resize_mode # NoHandle THEN resized ELSE moved
        corrected == IF d.on_drag_update # "unset"
                     THEN on_drag_update_result(d.on_drag_update, it1)
                     ELSE <<>>
    IN  IF Len(corrected) >= 4
        THEN [it1 EXCEPT !.x = corrected[1], !.y = corrected[2],
                         !.width = corrected[3], !.height = corrected[4]]
        ELSE IF Len(corrected) >= 2
        THEN [it1 EXCEPT !.x = corrected[1], !.y = corrected[2]]
        ELSE it1

\* Index of the last occurrence of i in the zip of the dragged items and snapshots.
LastIndex(d, i) ==
    LET n == IF Len(d.dragged_items) < Len(d.original_states)
             THEN Len(d.dragged_items) ELSE Len(d.original_states)
        ks == { k \in 1..n : d.dragged_items[k] = i }
    IN  IF ks = {} THEN 0 ELSE CHOOSE k \in ks : \A j \in ks : j <= k

\* An update that measures from the items' current geometry instead of the snapshots.
UpdatedItems_incremental(d, its, pos) ==
    LET raw_dx == RSub(get_value_at(XRuler, pos[1]), get_value_at(XRuler, d.drag_start_pos[1]))
        raw_dy == RSub(get_value_at(YRuler, pos[2]), get_value_at(YRuler, d.drag_start_pos[2]))
    IN  [i \in Items |->
            IF LastIndex(d, i) = 0 THEN its[i]
            ELSE UpdateDragItem(d, its[i], ItemCaps[i], StateOf(its[i]), raw_dx, raw_dy)]

\* for item, orig in zip(dragged_items, original_states): ... (update_drag)
UpdatedItems(d, its, pos) ==
    LET raw_dx == RSub(get_value_at(XRuler, pos[1]), get_value_at(XRuler, d.drag_start_pos[1]))
        raw_dy == RSub(get_value_at(YRuler, pos[2]), get_value_at(YRuler, d.drag_start_pos[2]))
    IN  [i \in Items |->
            IF LastIndex(d, i) = 0 THEN its[i]
            ELSE UpdateDragItem(d, its[i], ItemCaps[i], d.original_states[LastIndex(d, i)],
                                raw_dx, raw_dy)]

\* A rollback that restores only the first dragged item.
RestoredItems_first_only(d, its) ==
    [i \in Items |->
        IF LastIndex(d, i) # 1 THEN its[i]
        ELSE LET st == d.original_states[1]
             IN  [its[i] EXCEPT !.x = st.x, !.y = st.y, !.width = st.width, !.height = st.height]]

\* for item, state in zip(dragged_items, original_states): item.x, ... = state (end_drag)
RestoredItems(d, its) ==
    [i \in Items |->
        IF LastIndex(d, i) = 0 THEN its[i]
        ELSE LET st == d.original_states[LastIndex(d, i)]
             IN  [its[i] EXCEPT !.x = st.x, !.y = st.y, !.width = st.width, !.height = st.height]]

\* An end_drag that leaves the resize mode and the start position in place.
ClearedDrag_partial(d) ==
    [d EXCEPT !.dragging = FALSE, !.dragged_items = <<>>, !.original_states = <<>>]

\* The transient drag fields as end_drag clears them.
ClearedDrag(d) ==
    [d EXCEPT !.dragging = FALSE, !.dragged_items = <<>>, !.original_states = <<>>,
              !.drag_start_pos = None, !.resize_mode = NoHandle]

\* What a callback can see of the transient drag state.
DragView(d) ==
    [dragging |-> d.dragging, dragged_items |-> d.dragged_items,
     original_states |-> d.original_states, drag_start_pos |-> d.drag_start_pos,
     resize_mode |-> d.resize_mode]

\* on_drop called before the drag state is cleared.
DropView_stale(d) == DragView(d)

\* The drag state on_drop sees: end_drag clears it before the call.
DropView(d) == DragView(ClearedDrag(d))

SelectionManagerInit ==
    [selected_items |-> {}, banding |-> FALSE, band_start |-> None, band_end |-> None]

\* InteractionHandler.__init__ followed by add_items([A, B, C]).
InteractionHandlerInit ==
    [items |-> <<"A", "B", "C">>, press_pos |-> None, press_item |-> "none",
     press_data_coords |-> None, hover_item |-> "none", hover_handle |-> NoHandle,
     batch_depth |-> 0]

DragDropManagerInit ==
    [dragging |-> FALSE, resize_mode |-> NoHandle, dragged_items |-> <<>>,
     original_states |-> <<>>, drag_start_pos |-> None,
     can_drop |-> "unset", on_drop |-> "unset", on_drag_update |-> "unset",
     snap_cx_func |-> "unset", snap_cy_func |-> "unset",
     snap_resize_x_func |-> "unset", snap_resize_y_func |-> "unset",
     min_width |-> None, min_height |-> None, max_width |-> None, max_height |-> None,
     last_valid |-> TRUE]

ObsInit ==
    [last_op |-> "init", drags |-> 0, presses |-> 0, updated |-> FALSE,
     start_items |-> <<>>, start_states |-> <<>>,
     end_result |-> "none", end_can_drop |-> "none", end_dirty |-> FALSE,
     drop_called |-> FALSE, drop_arg |-> <<>>, drop_seen |-> <<>>,
     clicked |-> {}, band_shift |-> FALSE, band_kept |-> {}, band_prev |-> {}]

\* The results can_drop may give where it is evaluated: True when it is unset.
CanDropResults(d) == IF d.can_drop = "set" THEN BOOLEAN ELSE {TRUE}

\* DragDropManager.start_drag(items, pos, resize_handle); valid is can_drop's result.
start_drag(d, its, o, items, pos, resize_handle, valid) ==
    LET snapshot == [k \in 1..Len(items) |-> StateOf(its[items[k]])]
    IN  [dd |-> [d EXCEPT !.dragging = TRUE,
                          !.resize_mode = resize_handle,
                          !.dragged_items = items,
                          !.drag_start_pos = pos,
                          !.original_states = snapshot,
                          !.last_valid = valid],
         item |-> its,
         obs |-> [o EXCEPT !.drags = o.drags + 1, !.updated = FALSE,
                           !.start_items = items, !.start_states = snapshot,
                           !.end_result = "none", !.end_can_drop = "none",
                           !.end_dirty = FALSE, !.drop_called = FALSE,
                           !.drop_arg = <<>>, !.drop_seen = <<>>]]

\* DragDropManager.update_drag(pos, x_ruler, y_ruler); valid is can_drop's result.
update_drag(d, its, o, pos, valid) ==
    IF ~d.dragging \/ d.drag_start_pos = None
    THEN [dd |-> d, item |-> its, obs |-> o]
    ELSE [dd |-> [d EXCEPT !.last_valid = valid],
          item |-> UpdatedItems(d, its, pos),
          obs |-> [o EXCEPT !.updated = TRUE]]

\* Some dragged item's geometry differs from its snapshot.
Dirty(d, its) ==
    \E k \in 1..Len(d.dragged_items) : StateOf(its[d.dragged_items[k]]) # d.original_states[k]

\* An end_drag without the check that a drag is active.
end_drag_unguarded(d, its, o, ok) ==
    LET items_to_drop == d.dragged_items
        seen == IF d.can_drop = "unset" THEN "unset" ELSE IF ok THEN "true" ELSE "false"
    IN  IF d.can_drop = "set" /\ ~ok
        THEN [dd |-> ClearedDrag(d), item |-> RestoredItems(d, its), ret |-> FALSE,
              obs |-> [o EXCEPT !.end_result = "false", !.end_can_drop = seen,
                                !.end_dirty = Dirty(d, its), !.drop_called = FALSE,
                                !.drop_arg = <<>>, !.drop_seen = <<>>]]
        ELSE [dd |-> ClearedDrag(d), item |-> its, ret |-> TRUE,
              obs |-> [o EXCEPT !.end_result = "true", !.end_can_drop = seen,
                                !.end_dirty = Dirty(d, its),
                                !.drop_called = (d.on_drop = "set"),
                                !.drop_arg = IF d.on_drop = "set" THEN items_to_drop ELSE <<>>,
                                !.drop_seen = IF d.on_drop = "set" THEN DropView(d) ELSE <<>>]]

\* DragDropManager.end_drag(); ok is can_drop's result. ret is the return value.
end_drag(d, its, o, ok) ==
    LET items_to_drop == d.dragged_items
        seen == IF d.can_drop = "unset" THEN "unset" ELSE IF ok THEN "true" ELSE "false"
    IN  IF ~d.dragging
        THEN [dd |-> d, item |-> its, ret |-> FALSE,
              obs |-> [o EXCEPT !.end_result = "false", !.end_can_drop = "none",
                                !.end_dirty = FALSE, !.drop_called = FALSE,
                                !.drop_arg = <<>>, !.drop_seen = <<>>]]
        ELSE IF d.can_drop = "set" /\ ~ok
        THEN [dd |-> ClearedDrag(d), item |-> RestoredItems(d, its), ret |-> FALSE,
              obs |-> [o EXCEPT !.end_result = "false", !.end_can_drop = seen,
                                !.end_dirty = Dirty(d, its), !.drop_called = FALSE,
                                !.drop_arg = <<>>, !.drop_seen = <<>>]]
        ELSE [dd |-> ClearedDrag(d), item |-> its, ret |-> TRUE,
              obs |-> [o EXCEPT !.end_result = "true", !.end_can_drop = seen,
                                !.end_dirty = Dirty(d, its),
                                !.drop_called = (d.on_drop = "set"),
                                !.drop_arg = IF d.on_drop = "set" THEN items_to_drop ELSE <<>>,
                                !.drop_seen = IF d.on_drop = "set" THEN DropView(d) ELSE <<>>]]

-----------------------------------------------------------------------------
(* InteractiveItem hit tests, SelectionManager, InteractionHandler events  *)

RAbs(a) == <<Abs(a[1]), a[2]>>

\* InteractiveItem.contains
contains(it, x, y) ==
    /\ RLe(it.x, x) /\ RLe(x, RAdd(it.x, it.width))
    /\ RLe(it.y, y) /\ RLe(y, RAdd(it.y, it.height))

\* A handle lookup that tests the vertical edges' handles last.
get_resize_handle_at_vertical_first(it, cap, x, y, x_tolerance, y_tolerance) ==
    IF ~cap.can_resize \/ ~contains(it, x, y) THEN NoHandle
    ELSE LET x_left_dist == RAbs(RSub(x, it.x))
             x_right_dist == RAbs(RSub(x, RAdd(it.x, it.width)))
             y_top_dist == RAbs(RSub(y, it.y))
             y_bottom_dist == RAbs(RSub(y, RAdd(it.y, it.height)))
         IN  IF "top" \in cap.resize_handles /\ RLt(y_top_dist, y_tolerance) THEN "top"
             ELSE IF "bottom" \in cap.resize_handles /\ RLt(y_bottom_dist, y_tolerance)
             THEN "bottom"
             ELSE IF "left" \in cap.resize_handles /\ RLt(x_left_dist, x_tolerance) THEN "left"
             ELSE IF "right" \in cap.resize_handles /\ RLt(x_right_dist, x_tolerance)
             THEN "right"
             ELSE NoHandle

\* InteractiveItem.get_resize_handle_at
get_resize_handle_at(it, cap, x, y, x_tolerance, y_tolerance) ==
    IF ~cap.can_resize \/ ~contains(it, x, y) THEN NoHandle
    ELSE LET x_left_dist == RAbs(RSub(x, it.x))
             x_right_dist == RAbs(RSub(x, RAdd(it.x, it.width)))
             y_top_dist == RAbs(RSub(y, it.y))
             y_bottom_dist == RAbs(RSub(y, RAdd(it.y, it.height)))
         IN  IF "left" \in cap.resize_handles /\ RLt(x_left_dist, x_tolerance) THEN "left"
             ELSE IF "right" \in cap.resize_handles /\ RLt(x_right_dist, x_tolerance) THEN "right"
             ELSE IF "top" \in cap.resize_handles /\ RLt(y_top_dist, y_tolerance) THEN "top"
             ELSE IF "bottom" \in cap.resize_handles /\ RLt(y_bottom_dist, y_tolerance)
             THEN "bottom"
             ELSE NoHandle

\* A hit test that prefers the item added last.
FirstHit_last(items, its, x, y) ==
    LET ks == { k \in 1..Len(items) : contains(its[items[k]], x, y) }
    IN  IF ks = {} THEN "none" ELSE items[CHOOSE k \in ks : \A j \in ks : j <= k]

\* next((i for i in self.items if i.contains(x, y)), None)
FirstHit(items, its, x, y) ==
    LET ks == { k \in 1..Len(items) : contains(its[items[k]], x, y) }
    IN  IF ks = {} THEN "none" ELSE items[CHOOSE k \in ks : \A j \in ks : k <= j]

\* (p - q).manhattanLength()
manhattanLength(p, q) == RAdd(RAbs(RSub(p[1], q[1])), RAbs(RSub(p[2], q[2])))

\* The drag threshold of _move and _release, in pixels.
DragThreshold == 5

\* The handle tolerance of _move and _update_hover_state, in pixels.
HandleTolerance == 8

\* SelectionManager.clear on w = [sel, item]
clear(w) ==
    [sel |-> [w.sel EXCEPT !.selected_items = {}],
     item |-> [i \in Items |-> IF i \in w.sel.selected_items
                               THEN [w.item[i] EXCEPT !.selected = FALSE]
                               ELSE w.item[i]]]

\* SelectionManager.select
select_unflagged(w, i, add) ==
    LET w1 == IF ~add THEN [w EXCEPT !.sel.selected_items = {}] ELSE w
    IN  [sel |-> [w1.sel EXCEPT !.selected_items = @ \cup {i}],
         item |-> [w1.item EXCEPT ![i].selected = TRUE]]

select(w, i, add) ==
    LET w1 == IF ~add THEN clear(w) ELSE w
    IN  [sel |-> [w1.sel EXCEPT !.selected_items = @ \cup {i}],
         item |-> [w1.item EXCEPT ![i].selected = TRUE]]

\* SelectionManager.toggle
toggle(w, i) ==
    IF i \in w.sel.selected_items
    THEN [sel |-> [w.sel EXCEPT !.selected_items = @ \ {i}],
          item |-> [w.item EXCEPT ![i].selected = FALSE]]
    ELSE [sel |-> [w.sel EXCEPT !.selected_items = @ \cup {i}],
          item |-> [w.item EXCEPT ![i].selected = TRUE]]

\* SelectionManager.start_band
start_band(w, pos) ==
    [w EXCEPT !.sel.banding = TRUE, !.sel.band_start = pos, !.sel.band_end = pos]

\* SelectionManager.update_band
update_band(w, pos) == IF w.sel.banding THEN [w EXCEPT !.sel.band_end = pos] ELSE w

\* SelectionManager.end_band
end_band(w) ==
    [w EXCEPT !.sel.banding = FALSE, !.sel.band_start = None, !.sel.band_end = None]

\* The band rectangle in data coordinates, normalised: [x1, x2, y1, y2].
BandRect(s) ==
    LET xa == get_value_at(XRuler, s.band_start[1])
        xb == get_value_at(XRuler, s.band_end[1])
        ya == get_value_at(YRuler, s.band_start[2])
        yb == get_value_at(YRuler, s.band_end[2])
    IN  [x1 |-> RMin(xa, xb), x2 |-> RMax(xa, xb), y1 |-> RMin(ya, yb), y2 |-> RMax(ya, yb)]

\* not (item.x > x2 or item.x + item.width < x1 or item.y > y2 or item.y + item.height < y1)
IntersectsBand(it, b) ==
    ~(\/ RLt(b.x2, it.x)
      \/ RLt(RAdd(it.x, it.width), b.x1)
      \/ RLt(b.y2, it.y)
      \/ RLt(RAdd(it.y, it.height), b.y1))

\* _update_band without its first loop: items are only ever added.
_update_band_additive(w, items) ==
    IF ~w.sel.banding \/ w.sel.band_start = None \/ w.sel.band_end = None THEN w
    ELSE LET b == BandRect(w.sel)
             hit == { items[k] : k \in { j \in 1..Len(items) :
                                           IntersectsBand(w.item[items[j]], b) } }
         IN  [sel |-> [w.sel EXCEPT !.selected_items = @ \cup hit],
              item |-> [i \in Items |-> IF i \in hit
                                        THEN [w.item[i] EXCEPT !.selected = TRUE]
                                        ELSE w.item[i]]]

\* InteractionHandler._update_band
_update_band(w, items) ==
    IF ~w.sel.banding \/ w.sel.band_start = None \/ w.sel.band_end = None THEN w
    ELSE LET b == BandRect(w.sel)
             \* first loop: selected items outside the band are deselected
             out == { i \in w.sel.selected_items : ~IntersectsBand(w.item[i], b) }
             \* second loop: every managed item intersecting the band is selected
             hit == { items[k] : k \in { j \in 1..Len(items) :
                                           IntersectsBand(w.item[items[j]], b) } }
         IN  [sel |-> [w.sel EXCEPT !.selected_items = (@ \ out) \cup hit],
              item |-> [i \in Items |->
                           IF i \in hit THEN [w.item[i] EXCEPT !.selected = TRUE]
                           ELSE IF i \in out THEN [w.item[i] EXCEPT !.selected = FALSE]
                           ELSE w.item[i]]]

\* InteractionHandler._update_hover_state (cursor shape and tooltip are the widget's)
_update_hover_state(hd, its, pos) ==
    LET x == get_value_at(XRuler, pos[1])
        y == get_value_at(YRuler, pos[2])
        new_hover_item == FirstHit(hd.items, its, x, y)
        new_hover_handle ==
            IF new_hover_item # "none" /\ ItemCaps[new_hover_item].can_resize
            THEN get_resize_handle_at(its[new_hover_item], ItemCaps[new_hover_item], x, y,
                                      get_delta_width(XRuler, Num(HandleTolerance)),
                                      get_delta_width(YRuler, Num(HandleTolerance)))
            ELSE NoHandle
    IN  [hd EXCEPT !.hover_item = new_hover_item, !.hover_handle = new_hover_handle]

\* All orders in which list(set) may enumerate the set S.
RECURSIVE ListsOf(_)
ListsOf(S) ==
    IF S = {} THEN { <<>> }
    ELSE UNION { { <<i>> \o l : l \in ListsOf(S \ {i}) } : i \in S }

-----------------------------------------------------------------------------
(* SpecDrag: a caller driving DragDropManager directly, with the           *)
(* configuration surface of InteractionHandler.                            *)

MaxDrags == 1

\* Lists of items handed to start_drag.
DragLists == { <<"A">>, <<"B", "A">> }

Pt(x, y) == <<Num(x), Num(y)>>

StartPoints == { Pt(30, 25) }

\* Pointer positions of update_drag: x deltas of -2.6, 0, +1 and +6 units, y deltas of
\* 0, +1 and +2.1 rows.
DragPoints == { Pt(4, 25), Pt(30, 25), Pt(40, 75), Pt(90, 130) }

\* Arguments of set_size_constraints: <<min_width, min_height, max_width, max_height>>.
SizeArgs ==
    { <<None, None, None, None>>,
      <<Num(1), Num(1), Num(5), Num(2)>>,
      <<Num(0), Num(0), Num(0), Num(0)>> }

\* Arguments of set_snap_strategy: <<snap_x, snap_y, snap_resize_x, snap_resize_y>>.
SnapArgs ==
    { <<"unset", "unset", "unset", "unset">>,
      <<"floor", "floor", "grid2", "unset">> }

set_size_constraints(min_width, min_height, max_width, max_height) ==
    /\ dd' = [dd EXCEPT !.min_width = min_width, !.min_height = min_height,
                        !.max_width = max_width, !.max_height = max_height]
    /\ obs' = [obs EXCEPT !.last_op = "config"]
    /\ item' = item

set_snap_strategy(snap_x, snap_y, snap_resize_x, snap_resize_y) ==
    /\ dd' = [dd EXCEPT !.snap_cx_func = snap_x, !.snap_cy_func = snap_y,
                        !.snap_resize_x_func = snap_resize_x,
                        !.snap_resize_y_func = snap_resize_y]
    /\ obs' = [obs EXCEPT !.last_op = "config"]
    /\ item' = item

\* The can_drop, on_drop and on_drag_update property setters.
set_callbacks(can_drop, on_drop, on_drag_update) ==
    /\ dd' = [dd EXCEPT !.can_drop = can_drop, !.on_drop = on_drop,
                        !.on_drag_update = on_drag_update]
    /\ obs' = [obs EXCEPT !.last_op = "config"]
    /\ item' = item

\* The caller configures the manager before the first gesture.
Configuring == obs.last_op \in {"init", "config"}

InitDrag ==
    /\ ruler = BaseRulerInit(Num(0), Num(100), Num(100), None, None, FALSE)
    /\ nav = 0
    /\ t_call = None
    /\ g_call = None
    /\ ev = None
    /\ item = InitItems
    /\ dd = DragDropManagerInit
    /\ sel = SelectionManagerInit
    /\ handler = InteractionHandlerInit
    /\ obs = ObsInit

SetSizeConstraints ==
    /\ Configuring
    /\ \E a \in SizeArgs : set_size_constraints(a[1], a[2], a[3], a[4])
    /\ UNCHANGED <<rulerVars, sel, handler>>

SetSnapStrategy ==
    /\ Configuring
    /\ \E a \in SnapArgs : set_snap_strategy(a[1], a[2], a[3], a[4])
    /\ UNCHANGED <<rulerVars, sel, handler>>

SetCallbacks ==
    /\ Configuring
    /\ \E c \in {"unset", "set"}, o \in {"unset", "set"}, u \in HookKinds :
          set_callbacks(c, o, u)
    /\ UNCHANGED <<rulerVars, sel, handler>>

StartDrag ==
    /\ obs.drags < MaxDrags
    /\ \E items \in DragLists, pos \in StartPoints, handle \in {NoHandle} \cup ResizeHandles,
          valid \in CanDropResults(dd) :
          \E r \in {start_drag(dd, item, obs, items, pos, handle, valid)} :
              /\ dd' = r.dd
              /\ item' = r.item
              /\ obs' = [r.obs EXCEPT !.last_op = "start_drag"]
    /\ UNCHANGED <<rulerVars, sel, handler>>

UpdateDrag ==
    /\ \E pos \in DragPoints, valid \in CanDropResults(dd) :
          \E r \in {update_drag(dd, item, obs, pos, valid)} :
              /\ dd' = r.dd
              /\ item' = r.item
              /\ obs' = [r.obs EXCEPT !.last_op = "update_drag"]
    /\ UNCHANGED <<rulerVars, sel, handler>>

EndDrag ==
    /\ \E ok \in CanDropResults(dd) :
          \E r \in {end_drag(dd, item, obs, ok)} :
              /\ dd' = r.dd
              /\ item' = r.item
              /\ obs' = [r.obs EXCEPT !.last_op = "end_drag"]
    /\ UNCHANGED <<rulerVars, sel, handler>>

NextDrag ==
    \/ SetSizeConstraints
    \/ SetSnapStrategy
    \/ SetCallbacks
    \/ StartDrag
    \/ UpdateDrag
    \/ EndDrag

SpecDrag == InitDrag /\ [][NextDrag]_vars

-----------------------------------------------------------------------------
(* SpecUpdate: start_drag / update_drag calls recorded with their arguments  *)
(* and with the can_drop evaluations they make.                             *)

\* The can_drop evaluations of start_drag: one, on the items handed in, when a
\* predicate is configured. saw is the item geometry at the time of the call.
start_drag_can_drop_calls(d, its, items) ==
    IF d.can_drop # "unset" THEN << [arg |-> items, saw |-> its] >> ELSE <<>>

\* An update_drag that evaluates can_drop before it moves the items.
update_drag_can_drop_calls_early(d, its, pos) ==
    IF d.can_drop # "unset" THEN << [arg |-> d.dragged_items, saw |-> its] >> ELSE <<>>

\* The can_drop evaluations of update_drag: one, after the loop over the dragged items,
\* on self.dragged_items.
update_drag_can_drop_calls(d, its, pos) ==
    IF ~d.dragging \/ d.drag_start_pos = None THEN <<>>
    ELSE IF d.can_drop # "unset"
    THEN << [arg |-> d.dragged_items, saw |-> UpdatedItems(d, its, pos)] >>
    ELSE <<>>

\* The can_drop and on_drag_update property setters.
SetHooks ==
    /\ Configuring
    /\ \E c \in {"unset", "set"}, u \in HookKinds \cup LongHookKinds :
          set_callbacks(c, "unset", u)
    /\ UNCHANGED <<rulerVars, sel, handler>>

RecordedStartDrag ==
    /\ obs.drags < MaxDrags
    /\ \E items \in DragLists, pos \in StartPoints, handle \in {NoHandle} \cup ResizeHandles,
          valid \in CanDropResults(dd) :
          \E r \in {start_drag(dd, item, obs, items, pos, handle, valid)} :
              /\ dd' = r.dd
              /\ item' = r.item
              /\ obs' = [r.obs EXCEPT !.last_op = "start_drag"]
              /\ ev' = [op |-> "start_drag", items |-> items, pos |-> pos, valid |-> valid,
                        calls |-> start_drag_can_drop_calls(dd, item, items)]
    /\ UNCHANGED <<ruler, nav, t_call, g_call, sel, handler>>

RecordedUpdateDrag ==
    /\ dd.dragging
    /\ \E pos \in DragPoints, valid \in CanDropResults(dd) :
          \E r \in {update_drag(dd, item, obs, pos, valid)} :
              /\ dd' = r.dd
              /\ item' = r.item
              /\ obs' = [r.obs EXCEPT !.last_op = "update_drag"]
              /\ ev' = [op |-> "update_drag", pos |-> pos, valid |-> valid,
                        calls |-> update_drag_can_drop_calls(dd, item, pos)]
    /\ UNCHANGED <<ruler, nav, t_call, g_call, sel, handler>>

NextUpdate ==
    \/ SetSizeConstraints
    \/ SetSnapStrategy
    \/ SetHooks
    \/ RecordedStartDrag
    \/ RecordedUpdateDrag

SpecUpdate == InitDrag /\ [][NextUpdate]_vars

-----------------------------------------------------------------------------
(* SpecSelect: an application calling the methods of SelectionManager.       *)

\* Pointer positions handed to start_band and update_band.
BandPoints == { Pt(10, 10), Pt(70, 60) }

\* The selection and the item flags after a method call, with the call recorded.
Selected(w, call) ==
    /\ sel' = w.sel
    /\ item' = w.item
    /\ ev' = call

SelectCall ==
    /\ \E i \in Items, add \in BOOLEAN :
          Selected(select([sel |-> sel, item |-> item], i, add),
                   [op |-> "select", item |-> i, add |-> add, before |-> sel.selected_items])
    /\ UNCHANGED <<ruler, nav, t_call, g_call, dd, handler, obs>>

ToggleCall ==
    /\ \E i \in Items :
          Selected(toggle([sel |-> sel, item |-> item], i), [op |-> "toggle", item |-> i])
    /\ UNCHANGED <<ruler, nav, t_call, g_call, dd, handler, obs>>

ClearCall ==
    /\ Selected(clear([sel |-> sel, item |-> item]), [op |-> "clear"])
    /\ UNCHANGED <<ruler, nav, t_call, g_call, dd, handler, obs>>

StartBandCall ==
    /\ \E pos \in BandPoints :
          Selected(start_band([sel |-> sel, item |-> item], pos),
                   [op |-> "start_band", pos |-> pos])
    /\ UNCHANGED <<ruler, nav, t_call, g_call, dd, handler, obs>>

UpdateBandCall ==
    /\ \E pos \in BandPoints :
          Selected(update_band([sel |-> sel, item |-> item], pos),
                   [op |-> "update_band", pos |-> pos])
    /\ UNCHANGED <<ruler, nav, t_call, g_call, dd, handler, obs>>

EndBandCall ==
    /\ Selected(end_band([sel |-> sel, item |-> item]), [op |-> "end_band"])
    /\ UNCHANGED <<ruler, nav, t_call, g_call, dd, handler, obs>>

NextSelect ==
    \/ SelectCall
    \/ ToggleCall
    \/ ClearCall
    \/ StartBandCall
    \/ UpdateBandCall
    \/ EndBandCall

SpecSelect == InitDrag /\ [][NextSelect]_vars

-----------------------------------------------------------------------------
(* SpecHandle: get_resize_handle_at probed on items of every capability.     *)

\* Item geometries probed: a 4 x 1 item at (2, 0) and one narrower than the tolerance.
HandleGeoms == { Geom(Num(2), Num(0), Num(4), Num(1)), Geom(Num(2), Num(0), <<1, 2>>, Num(1)) }

\* ItemCapabilities probed: resizable or not, with every set of enabled handles.
HandleCaps ==
    { [can_resize |-> r, resize_handles |-> hs] : r \in BOOLEAN, hs \in SUBSET ResizeHandles }

\* Probe coordinates: outside the item, on its edges, within, at and beyond the
\* tolerance from an edge.
HandleXs == { <<3, 2>>, Num(2), <<11, 5>>, <<5, 2>>, <<14, 5>>, Num(4), <<11, 2>>, Num(6) }
HandleYs == { Num(0), <<1, 10>>, <<4, 25>>, <<1, 2>>, <<9, 10>>, Num(1), <<6, 5>> }

\* The tolerances _move and _update_hover_state pass: 8 pixels on XRuler and YRuler.
HandleTolX == get_delta_width(XRuler, Num(HandleTolerance))
HandleTolY == get_delta_width(YRuler, Num(HandleTolerance))

\* One lookup per behaviour: the function reads its arguments only.
ProbeHandle ==
    /\ ev = None
    /\ \E g \in HandleGeoms, cap \in HandleCaps, x \in HandleXs, y \in HandleYs :
          ev' = [op |-> "get_resize_handle_at", it |-> g, cap |-> cap, x |-> x, y |-> y,
                 ret |-> get_resize_handle_at(g, cap, x, y, HandleTolX, HandleTolY)]
    /\ UNCHANGED <<ruler, nav, t_call, g_call, dragVars>>

NextHandle ==
    \/ ProbeHandle

SpecHandle == InitDrag /\ [][NextHandle]_vars

-----------------------------------------------------------------------------
(* SpecBatch: the item management API of InteractionHandler, inside and      *)
(* outside batch_update scopes. Each result is [hd, w, redraws]: the handler,  *)
(* the selection with the item flags, and the number of viewport().update()    *)
(* requests the call made.                                                     *)

\* Selections the application has made with SelectionManager.select(item, add=True).
Preselected(its) ==
    [sel |-> [SelectionManagerInit EXCEPT !.selected_items = its],
     item |-> [i \in Items |-> [InitItems[i] EXCEPT !.selected = (i \in its)]]]

\* Longest item list explored.
MaxItems == 3

\* Deepest nesting of batch_update scopes explored.
MaxDepth == 2

\* 1 when a redraw is requested at batch depth depth, else 0.
RedrawUnlessBatched(depth) == IF depth = 0 THEN 1 ELSE 0

\* list.remove(i): the list without the first occurrence of i.
RemoveFirst(items, i) ==
    LET ks == { k \in 1..Len(items) : items[k] = i }
        first == CHOOSE k \in ks : \A j \in ks : k <= j
    IN  [k \in 1..(Len(items) - 1) |-> IF k < first THEN items[k] ELSE items[k + 1]]

InList(items, i) == \E k \in 1..Len(items) : items[k] = i

\* An add_item that requests a redraw at every batch depth.
add_item_eager(hd, w, i) ==
    [hd |-> [hd EXCEPT !.items = Append(@, i)], w |-> w, redraws |-> 1]

\* InteractionHandler.add_item
add_item(hd, w, i) ==
    [hd |-> [hd EXCEPT !.items = Append(@, i)], w |-> w,
     redraws |-> RedrawUnlessBatched(hd.batch_depth)]

\* InteractionHandler.remove_item
remove_item(hd, w, i) ==
    IF InList(hd.items, i)
    THEN [hd |-> [hd EXCEPT !.items = RemoveFirst(@, i)],
          w |-> [sel |-> [w.sel EXCEPT !.selected_items = @ \ {i}],
                 item |-> [w.item EXCEPT ![i].selected = FALSE]],
          redraws |-> RedrawUnlessBatched(hd.batch_depth)]
    ELSE [hd |-> hd, w |-> w, redraws |-> 0]

\* InteractionHandler.clear_items
clear_items(hd, w) ==
    [hd |-> [hd EXCEPT !.items = <<>>], w |-> clear(w),
     redraws |-> RedrawUnlessBatched(hd.batch_depth)]

\* batch_update: entering the scope.
batch_enter(hd, w) ==
    [hd |-> [hd EXCEPT !.batch_depth = @ + 1], w |-> w, redraws |-> 0]

\* batch_update: the finally clause, run when the body returns or raises.
batch_exit(hd, w) ==
    [hd |-> [hd EXCEPT !.batch_depth = @ - 1], w |-> w,
     redraws |-> RedrawUnlessBatched(hd.batch_depth - 1)]

\* ev.scopes is the stack of open batch_update scopes, each with the batch depth at
\* which it was entered.
InitBatch ==
    /\ ruler = BaseRulerInit(Num(0), Num(100), Num(100), None, None, FALSE)
    /\ nav = 0
    /\ t_call = None
    /\ g_call = None
    /\ ev = [op |-> "init", redraws |-> 0, scopes |-> <<>>]
    /\ \E its \in SUBSET Items :
          /\ sel = Preselected(its).sel
          /\ item = Preselected(its).item
    /\ dd = DragDropManagerInit
    /\ handler = InteractionHandlerInit
    /\ obs = ObsInit

\* The state after an item management call with result r, recorded as call.
Managed(r, call) ==
    /\ handler' = r.hd
    /\ sel' = r.w.sel
    /\ item' = r.w.item
    /\ ev' = call

AddItem ==
    /\ Len(handler.items) < MaxItems
    /\ \E i \in Items :
       \E r \in {add_item(handler, [sel |-> sel, item |-> item], i)} :
          Managed(r, [op |-> "add_item", item |-> i, redraws |-> r.redraws,
                      scopes |-> ev.scopes])
    /\ UNCHANGED <<ruler, nav, t_call, g_call, dd, obs>>

RemoveItem ==
    /\ \E i \in Items :
       \E r \in {remove_item(handler, [sel |-> sel, item |-> item], i)} :
          Managed(r, [op |-> "remove_item", item |-> i, redraws |-> r.redraws,
                      scopes |-> ev.scopes])
    /\ UNCHANGED <<ruler, nav, t_call, g_call, dd, obs>>

ClearItems ==
    /\ \E r \in {clear_items(handler, [sel |-> sel, item |-> item])} :
          Managed(r, [op |-> "clear_items", redraws |-> r.redraws, scopes |-> ev.scopes])
    /\ UNCHANGED <<ruler, nav, t_call, g_call, dd, obs>>

EnterBatch ==
    /\ handler.batch_depth < MaxDepth
    /\ \E r \in {batch_enter(handler, [sel |-> sel, item |-> item])} :
          Managed(r, [op |-> "batch_enter", redraws |-> r.redraws,
                      scopes |-> Append(ev.scopes, handler.batch_depth)])
    /\ UNCHANGED <<ruler, nav, t_call, g_call, dd, obs>>

\* The innermost open scope ends, normally or by an exception of its body.
ExitBatch ==
    /\ ev.scopes # <<>>
    /\ \E raised \in BOOLEAN :
       \E r \in {batch_exit(handler, [sel |-> sel, item |-> item])} :
          Managed(r, [op |-> "batch_exit", raised |-> raised, redraws |-> r.redraws,
                      scopes |-> SubSeq(ev.scopes, 1, Len(ev.scopes) - 1)])
    /\ UNCHANGED <<ruler, nav, t_call, g_call, dd, obs>>

NextBatch ==
    \/ AddItem
    \/ RemoveItem
    \/ ClearItems
    \/ EnterBatch
    \/ ExitBatch

SpecBatch == InitBatch /\ [][NextBatch]_vars

-----------------------------------------------------------------------------
(* SpecPath: one drag without hooks, each update_drag recorded together with  *)
(* the pointer position of the update before it.                              *)

PathStartDrag ==
    /\ obs.drags < MaxDrags
    /\ \E items \in DragLists, pos \in StartPoints, handle \in {NoHandle} \cup ResizeHandles :
          \E r \in {start_drag(dd, item, obs, items, pos, handle, TRUE)} :
              /\ dd' = r.dd
              /\ item' = r.item
              /\ obs' = [r.obs EXCEPT !.last_op = "start_drag"]
              /\ ev' = [op |-> "start_drag", pos |-> pos, prev |-> None]
    /\ UNCHANGED <<ruler, nav, t_call, g_call, sel, handler>>

PathUpdateDrag ==
    /\ dd.dragging
    /\ \E pos \in DragPoints :
          \E r \in {update_drag(dd, item, obs, pos, TRUE)} :
              /\ dd' = r.dd
              /\ item' = r.item
              /\ obs' = [r.obs EXCEPT !.last_op = "update_drag"]
              /\ ev' = [op |-> "update_drag", pos |-> pos,
                        prev |-> IF ev.op = "update_drag" THEN ev.pos ELSE None]
    /\ UNCHANGED <<ruler, nav, t_call, g_call, sel, handler>>

NextPath ==
    \/ SetSizeConstraints
    \/ SetSnapStrategy
    \/ PathStartDrag
    \/ PathUpdateDrag

SpecPath == InitDrag /\ [][NextPath]_vars

-----------------------------------------------------------------------------
(* SpecSync: InteractiveItem.sync_to_data on data objects of every shape.     *)
(* A data object is a function from its attribute names to their values.     *)

\* Attribute names a data object may have.
DataAttrs == {"x", "y", "width", "height", "start", "duration", "employee_id", "title"}

\* Data objects before the call: every attribute holds the value "old".
DataObjects == { [a \in attrs |-> "old"] : attrs \in SUBSET DataAttrs }

\* Item geometries synced: y values that round down, to even, and up.
SyncGeoms ==
    { Geom(Num(2), Num(0), Num(4), Num(1)), Geom(Num(8), <<1, 2>>, Num(3), Num(1)),
      Geom(Num(10), <<3, 2>>, Num(2), Num(1)), Geom(Num(1), <<9, 5>>, Num(2), Num(2)) }

\* int(round(y)): Python rounds halves to the even neighbour.
RoundHalfEven(a) ==
    LET f == Floor(a)
        frac == RSub(a, Num(f))
    IN  IF RLt(frac, <<1, 2>>) THEN f
        ELSE IF RLt(<<1, 2>>, frac) THEN f + 1
        ELSE IF f % 2 = 0 THEN f ELSE f + 1

\* if hasattr(data, name): data.name = v
SetIfHas(data, name, v) == IF name \in DOMAIN data THEN [data EXCEPT ![name] = v] ELSE data

\* Caller-supplied mappings, by kind: "map_title" is
\* lambda data, x, y, w, h: setattr(data, "title", x); "unset" is None.
SyncKinds == {"unset", "map_title"}

\* InteractiveItem.sync_to_data(sync_to_data) on an item with geometry it and data data.
sync_to_data(it, data, callback) ==
    IF callback # "unset"
    THEN [a \in DOMAIN data \cup {"title"} |-> IF a = "title" THEN it.x ELSE data[a]]
    ELSE LET d1 == SetIfHas(data, "x", it.x)
             d2 == SetIfHas(d1, "y", it.y)
             d3 == SetIfHas(d2, "width", it.width)
             d4 == SetIfHas(d3, "height", it.height)
             d5 == SetIfHas(d4, "start", it.x)
             d6 == SetIfHas(d5, "duration", it.width)
         IN  SetIfHas(d6, "employee_id", RoundHalfEven(it.y))

\* One call per behaviour, recorded with the data object before and after.
SyncToData ==
    /\ ev = None
    /\ \E g \in SyncGeoms, data \in DataObjects, callback \in SyncKinds :
          ev' = [op |-> "sync_to_data", it |-> g, callback |-> callback,
                 before |-> data, after |-> sync_to_data(g, data, callback)]
    /\ UNCHANGED <<ruler, nav, t_call, g_call, dragVars>>

NextSync ==
    \/ SyncToData

SpecSync == InitDrag /\ [][NextSync]_vars

-----------------------------------------------------------------------------
(* SpecHandler: mouse events delivered to InteractionHandler.               *)

\* Number of button presses explored.
MaxPresses == 2

\* Pointer positions in pixels (10 px per x unit, 50 px per row): empty space at
\* (10,10), (70,10) and (140,5); A's body (40,25); the overlap of B and C inside
\* B's right handle zone (105,40).
HandlerPoints ==
    { Pt(10, 10), Pt(70, 10), Pt(140, 5), Pt(40, 25), Pt(105, 40) }

\* A press whose empty-space branch clears the selection whatever the modifiers.
PressSelection_clearing(w, press_item, pos, ctrl, shift) ==
    IF press_item # "none"
    THEN select(IF ~w.item[press_item].selected /\ ~ctrl THEN clear(w) ELSE w,
                press_item, TRUE)
    ELSE clear(start_band(w, pos))

\* The selection after _press: a hit item is selected (after a clear when it was not
\* selected and ctrl is up); empty space starts the band and, without shift, clears.
PressSelection(w, press_item, pos, ctrl, shift) ==
    IF press_item # "none"
    THEN select(IF ~w.item[press_item].selected /\ ~ctrl THEN clear(w) ELSE w,
                press_item, TRUE)
    ELSE IF ~shift THEN clear(start_band(w, pos)) ELSE start_band(w, pos)

\* InteractionHandler._press; ctrl and shift are the event's modifiers.
_press(pos, ctrl, shift) ==
    \E x \in {get_value_at(XRuler, pos[1])}, y \in {get_value_at(YRuler, pos[2])} :
    \E press_item \in {FirstHit(handler.items, item, x, y)} :
    \E w2 \in {PressSelection([sel |-> sel, item |-> item], press_item, pos, ctrl, shift)} :
        /\ sel' = w2.sel
        /\ item' = w2.item
        /\ handler' = [handler EXCEPT !.press_data_coords = <<x, y>>,
                                      !.press_item = press_item,
                                      !.press_pos = pos]
        /\ obs' = IF press_item # "none"
                  THEN [obs EXCEPT !.last_op = "press", !.presses = @ + 1,
                                   !.clicked = (@ \cap w2.sel.selected_items) \cup {press_item}]
                  ELSE [obs EXCEPT !.last_op = "press_band", !.presses = @ + 1,
                                   !.clicked = @ \cap w2.sel.selected_items,
                                   !.band_shift = shift,
                                   !.band_kept = IF shift
                                                 THEN obs.clicked \cap sel.selected_items
                                                 ELSE {},
                                   !.band_prev = w2.sel.selected_items]
        /\ dd' = dd

\* _move while a drag is in progress.
MoveDrag(pos) ==
    /\ dd.dragging
    /\ \E valid \in CanDropResults(dd) :
       \E r \in {update_drag(dd, item, obs, pos, valid)} :
          /\ dd' = r.dd
          /\ item' = r.item
          /\ obs' = [r.obs EXCEPT !.last_op = "move_drag"]
    /\ UNCHANGED <<sel, handler>>

\* _move while the rubber band is active.
MoveBand(pos) ==
    /\ ~dd.dragging
    /\ sel.banding
    /\ \E w1 \in {update_band([sel |-> sel, item |-> item], pos)} :
       \E w \in {_update_band(w1, handler.items)} :
          /\ sel' = w.sel
          /\ item' = w.item
          /\ obs' = [obs EXCEPT !.last_op = "move_band",
                                !.clicked = @ \cap w.sel.selected_items,
                                !.band_prev = sel.selected_items]
    /\ UNCHANGED <<dd, handler>>

\* Drag initiation that does not look at the rubber band.
InitiatesDrag_while_banding(pos) ==
    /\ ~dd.dragging
    /\ handler.press_pos # None
    /\ RLt(Num(DragThreshold), manhattanLength(pos, handler.press_pos))
    /\ sel.selected_items # {}

\* Drag initiation that already fires at the threshold distance.
InitiatesDrag_inclusive(pos) ==
    /\ ~dd.dragging
    /\ ~sel.banding
    /\ handler.press_pos # None
    /\ RLe(Num(DragThreshold), manhattanLength(pos, handler.press_pos))
    /\ sel.selected_items # {}

\* _move checks for drag initiation: past the threshold with a non-empty selection.
InitiatesDrag(pos) ==
    /\ ~dd.dragging
    /\ ~sel.banding
    /\ handler.press_pos # None
    /\ RLt(Num(DragThreshold), manhattanLength(pos, handler.press_pos))
    /\ sel.selected_items # {}

\* The handle under the press position, as _move looks it up before start_drag.
PressHandle(hd, its) ==
    IF hd.press_item # "none"
    THEN get_resize_handle_at(its[hd.press_item], ItemCaps[hd.press_item],
                              hd.press_data_coords[1], hd.press_data_coords[2],
                              get_delta_width(XRuler, Num(HandleTolerance)),
                              get_delta_width(YRuler, Num(HandleTolerance)))
    ELSE NoHandle

\* Drag initiation that falls through to the drag update within the same event.
MoveStartDrag_updating(pos) ==
    /\ InitiatesDrag(pos)
    /\ \E handle \in {PressHandle(handler, item)} :
       \E items \in ListsOf(sel.selected_items), valid \in CanDropResults(dd) :
       \E r \in {start_drag(dd, item, obs, items, handler.press_pos, handle, valid)} :
       \E u \in {update_drag(r.dd, r.item, r.obs, pos, valid)} :
          /\ dd' = u.dd
          /\ item' = u.item
          /\ obs' = [u.obs EXCEPT !.last_op = "move_start_drag"]
    /\ UNCHANGED <<sel, handler>>

\* _move starting a drag of the selected items from the press position.
MoveStartDrag(pos) ==
    /\ InitiatesDrag(pos)
    /\ \E handle \in {PressHandle(handler, item)} :
       \E items \in ListsOf(sel.selected_items), valid \in CanDropResults(dd) :
       \E r \in {start_drag(dd, item, obs, items, handler.press_pos, handle, valid)} :
          /\ dd' = r.dd
          /\ item' = r.item
          /\ obs' = [r.obs EXCEPT !.last_op = "move_start_drag"]
    /\ UNCHANGED <<sel, handler>>

\* _move with nothing in progress: only the hover state is refreshed.
MoveHover(pos) ==
    /\ ~dd.dragging
    /\ ~sel.banding
    /\ ~InitiatesDrag(pos)
    /\ \E hd \in {_update_hover_state(handler, item, pos)} : handler' = hd
    /\ obs' = [obs EXCEPT !.last_op = "move_hover"]
    /\ UNCHANGED <<dd, sel, item>>

\* InteractionHandler._move
_move(pos) == MoveDrag(pos) \/ MoveBand(pos) \/ MoveStartDrag(pos) \/ MoveHover(pos)

\* _release holds a click: no drag, no band, an item under the press, ctrl up and the
\* pointer still within the threshold of the press position.
IsClick(hd, pos, ctrl, was_dragging, was_banding) ==
    /\ ~was_dragging /\ ~was_banding
    /\ hd.press_item # "none" /\ ~ctrl
    /\ hd.press_pos # None
    /\ RLt(manhattanLength(pos, hd.press_pos), Num(DragThreshold))

\* A release that keeps the selection after an accepted drop.
ReleaseSelection_keeping(w0, hd, success, was_banding, click) ==
    LET w2 == IF was_banding THEN end_band(w0) ELSE w0
    IN  IF click THEN select(w2, hd.press_item, FALSE) ELSE w2

\* A release whose click adds the pressed item to the selection.
ReleaseSelection_additive(w0, hd, success, was_banding, click) ==
    LET w1 == IF success THEN clear(w0) ELSE w0
        w2 == IF was_banding THEN end_band(w1) ELSE w1
    IN  IF click THEN select(w2, hd.press_item, TRUE) ELSE w2

\* The selection after _release: cleared by a successful drop, the band ended, a
\* click selecting the pressed item alone.
ReleaseSelection(w0, hd, success, was_banding, click) ==
    LET w1 == IF success THEN clear(w0) ELSE w0
        w2 == IF was_banding THEN end_band(w1) ELSE w1
    IN  IF click THEN select(w2, hd.press_item, FALSE) ELSE w2

\* The hover and press fields as _release leaves them before the hover refresh.
ReleasedHandler(hd, was_dragging) ==
    [hd EXCEPT !.hover_item = IF was_dragging THEN "none" ELSE @,
               !.hover_handle = IF was_dragging THEN NoHandle ELSE @,
               !.press_pos = None, !.press_item = "none", !.press_data_coords = None]

\* InteractionHandler._release; ok is can_drop's result when end_drag asks for it.
_release(pos, ctrl, ok) ==
    \E was_dragging \in {dd.dragging}, was_banding \in {sel.banding} :
    \E r \in {IF was_dragging THEN end_drag(dd, item, obs, ok)
              ELSE [dd |-> dd, item |-> item, ret |-> FALSE, obs |-> obs]} :
    \E click \in {IsClick(handler, pos, ctrl, was_dragging, was_banding)} :
    \E w3 \in {ReleaseSelection([sel |-> sel, item |-> r.item], handler,
                                was_dragging /\ r.ret, was_banding, click)} :
    \E h1 \in {ReleasedHandler(handler, was_dragging)} :
    \E h2 \in {_update_hover_state(h1, w3.item, pos)} :
        /\ dd' = r.dd
        /\ sel' = w3.sel
        /\ item' = w3.item
        /\ handler' = h2
        /\ obs' = [r.obs EXCEPT !.last_op = IF was_dragging THEN "release_drag"
                                            ELSE IF was_banding THEN "release_band"
                                            ELSE "release",
                                !.clicked = IF click THEN {handler.press_item}
                                            ELSE @ \cap w3.sel.selected_items,
                                !.band_shift = FALSE, !.band_kept = {}, !.band_prev = {}]

\* After construction: the application has set can_drop and on_drop.
InitHandler ==
    /\ ruler = BaseRulerInit(Num(0), Num(100), Num(100), None, None, FALSE)
    /\ nav = 0
    /\ t_call = None
    /\ g_call = None
    /\ ev = None
    /\ item = InitItems
    /\ dd = [DragDropManagerInit EXCEPT !.can_drop = "set", !.on_drop = "set"]
    /\ sel = SelectionManagerInit
    /\ handler = InteractionHandlerInit
    /\ obs = ObsInit

\* The left button goes down only while it is up.
Press ==
    /\ handler.press_pos = None
    /\ obs.presses < MaxPresses
    /\ \E pos \in HandlerPoints, ctrl \in BOOLEAN, shift \in BOOLEAN : _press(pos, ctrl, shift)
    /\ UNCHANGED rulerVars

Move ==
    /\ \E pos \in HandlerPoints : _move(pos)
    /\ UNCHANGED rulerVars

Release ==
    /\ \E pos \in HandlerPoints, ctrl \in BOOLEAN,
          ok \in IF dd.dragging THEN CanDropResults(dd) ELSE {TRUE} :
          _release(pos, ctrl, ok)
    /\ UNCHANGED rulerVars

NextHandler ==
    \/ Press
    \/ Move
    \/ Release

SpecHandler == InitHandler /\ [][NextHandler]_vars

-----------------------------------------------------------------------------
(* SpecGesture: press / move / release gestures on a canvas whose selection    *)
(* the application has set up, each event recorded with its inputs. The        *)
(* pointer is followed while the button is down; SpecHandler covers hovering.  *)

\* Number of button presses explored in a gesture run.
MaxGestures == 1

\* Pointer positions: empty space (10,10); A's body (40,25) and two points at
\* Manhattan distance 5 and 6 from it, (43,27) and (44,27); A's left handle zone
\* (22,25); A's top edge, a handle A does not enable (40,2); the overlap of B and C
\* inside B's right handle zone (105,40); C alone at its left edge (102,60).
GesturePoints ==
    { Pt(10, 10), Pt(40, 25), Pt(43, 27), Pt(44, 27), Pt(22, 25), Pt(40, 2),
      Pt(105, 40), Pt(102, 60) }

\* Positions at which the button is let go: empty space, A's body, and a point at
\* Manhattan distance 4 from (40,25) and 1 from (43,27).
ReleasePoints == { Pt(10, 10), Pt(40, 25), Pt(42, 27) }

InitGesture ==
    /\ ruler = BaseRulerInit(Num(0), Num(100), Num(100), None, None, FALSE)
    /\ nav = 0
    /\ t_call = None
    /\ g_call = None
    /\ ev = None
    /\ \E its \in SUBSET Items :
          /\ sel = Preselected(its).sel
          /\ item = Preselected(its).item
    /\ dd = [DragDropManagerInit EXCEPT !.can_drop = "set", !.on_drop = "set"]
    /\ handler = InteractionHandlerInit
    /\ obs = ObsInit

GesturePress ==
    /\ handler.press_pos = None
    /\ obs.presses < MaxGestures
    /\ \E pos \in GesturePoints, ctrl \in BOOLEAN, shift \in BOOLEAN :
          /\ _press(pos, ctrl, shift)
          /\ ev' = [op |-> "press", pos |-> pos, ctrl |-> ctrl, shift |-> shift]
    /\ UNCHANGED <<ruler, nav, t_call, g_call>>

GestureMove ==
    /\ handler.press_pos # None
    /\ \E pos \in GesturePoints :
          /\ _move(pos)
          /\ ev' = [op |-> "move", pos |-> pos]
    /\ UNCHANGED <<ruler, nav, t_call, g_call>>

GestureRelease ==
    /\ handler.press_pos # None
    /\ \E pos \in ReleasePoints, ctrl \in BOOLEAN,
          ok \in IF dd.dragging THEN CanDropResults(dd) ELSE {TRUE} :
          /\ _release(pos, ctrl, ok)
          /\ ev' = [op |-> "release", pos |-> pos, ctrl |-> ctrl,
                    before |-> sel.selected_items]
    /\ UNCHANGED <<ruler, nav, t_call, g_call>>

NextGesture ==
    \/ GesturePress
    \/ GestureMove
    \/ GestureRelease

SpecGesture == InitGesture /\ [][NextGesture]_vars

-----------------------------------------------------------------------------
(* SpecManage: item management calls interleaved with pointer events, on     *)
(* items created unselected. Calls arrive between events, never inside one.  *)

\* The item passed to add_item and remove_item.
ManagedChoices == {"A"}

\* Pointer positions: on item A, on empty canvas, and far from both.
ManagePressPoints == { Pt(40, 25), Pt(10, 10) }
ManageMovePoints == { Pt(43, 27), Pt(105, 40) }
ManageReleasePoints == { Pt(40, 25) }

ManageAddItem ==
    /\ Len(handler.items) < MaxItems
    /\ \E i \in ManagedChoices :
       \E r \in {add_item(handler, [sel |-> sel, item |-> item], i)} :
          Managed(r, [op |-> "add_item", item |-> i])
    /\ UNCHANGED <<ruler, nav, t_call, g_call, dd, obs>>

ManageRemoveItem ==
    /\ \E i \in ManagedChoices :
       \E r \in {remove_item(handler, [sel |-> sel, item |-> item], i)} :
          Managed(r, [op |-> "remove_item", item |-> i, was_managed |-> InList(handler.items, i)])
    /\ UNCHANGED <<ruler, nav, t_call, g_call, dd, obs>>

ManageClearItems ==
    /\ \E r \in {clear_items(handler, [sel |-> sel, item |-> item])} :
          Managed(r, [op |-> "clear_items"])
    /\ UNCHANGED <<ruler, nav, t_call, g_call, dd, obs>>

\* InteractionHandler.clear_selection
ManageClearSelection ==
    /\ Selected(clear([sel |-> sel, item |-> item]), [op |-> "clear_selection"])
    /\ UNCHANGED <<ruler, nav, t_call, g_call, dd, handler, obs>>

ManagePress ==
    /\ handler.press_pos = None
    /\ obs.presses < MaxGestures
    /\ \E pos \in ManagePressPoints, ctrl \in BOOLEAN, shift \in BOOLEAN :
          /\ _press(pos, ctrl, shift)
          /\ ev' = [op |-> "press", pos |-> pos, ctrl |-> ctrl, shift |-> shift]
    /\ UNCHANGED <<ruler, nav, t_call, g_call>>

ManageMove ==
    /\ handler.press_pos # None
    /\ \E pos \in ManageMovePoints :
          /\ _move(pos)
          /\ ev' = [op |-> "move", pos |-> pos]
    /\ UNCHANGED <<ruler, nav, t_call, g_call>>

ManageRelease ==
    /\ handler.press_pos # None
    /\ \E pos \in ManageReleasePoints, ctrl \in BOOLEAN,
          ok \in IF dd.dragging THEN CanDropResults(dd) ELSE {TRUE} :
          /\ _release(pos, ctrl, ok)
          /\ ev' = [op |-> "release", pos |-> pos, ctrl |-> ctrl]
    /\ UNCHANGED <<ruler, nav, t_call, g_call>>

NextManage ==
    \/ ManageAddItem
    \/ ManageRemoveItem
    \/ ManageClearItems
    \/ ManageClearSelection
    \/ ManagePress
    \/ ManageMove
    \/ ManageRelease

SpecManage == InitDrag /\ [][NextManage]_vars

-----------------------------------------------------------------------------
(* SpecRuler: a ruler driven by zoom / pan, probed by transform and        *)
(* get_value_at.                                                            *)

MaxNav == 1

\* Constructor arguments <<window_start, window_stop, length, visible_start, visible_stop>>
RulerArgs ==
    { <<Num(0), Num(100), Num(100), Num(20), Num(80)>>,
      <<Num(0), Num(10), Num(4), None, None>>,
      <<Num(-5), Num(5), Num(8), Num(-1), Num(3)>>,
      <<Num(0), Num(100), Num(100), Num(0), Num(52)>> }

\* Pixel positions as fractions of the ruler's pixel length, inside and outside [0, length].
AnchorFractions == { <<-1, 2>>, <<0, 1>>, <<1, 2>>, <<1, 1>>, <<3, 2>> }

AnchorPixels(r) == { RMul(f, r.length) : f \in AnchorFractions }

PanDeltas(r) == { RMul(f, r.length) : f \in { <<-1, 1>>, <<-1, 4>>, <<1, 4>>, <<1, 1>> } }

ProbePixels(r) == AnchorPixels(r) \cup { Num(0), Num(50), Num(60), r.length }

ProbeValues(r) ==
    { r.visible_start, r.visible_stop, Num(50),
      RAdd(r.visible_start, RMul(<<1, 4>>, r.visible_length)),
      RAdd(r.visible_start, RMul(<<2, 3>>, r.visible_length)) }

\* ItemRuler constructor arguments <<item_count, length, default_pixels_per_item,
\* min_pixels_per_item, max_pixels_per_item>>; the visible range is left to default.
ItemRulerArgs ==
    { <<20, Num(300), Num(35), Num(25), Num(40)>>,
      <<2, Num(400), Num(30), Num(10), Num(100)>> }

InitRuler ==
    /\ \/ \E a \in RulerArgs, rev \in BOOLEAN :
             ruler = BaseRulerInit(a[1], a[2], a[3], a[4], a[5], rev)
       \/ \E a \in ItemRulerArgs, rev \in BOOLEAN :
             ruler = ItemRulerInit(a[1], a[2], None, None, rev, a[3], a[4], a[5])
    /\ nav = 0
    /\ t_call = None
    /\ g_call = None
    /\ ev = None
    /\ item = InitItems
    /\ dd = DragDropManagerInit
    /\ sel = SelectionManagerInit
    /\ handler = InteractionHandlerInit
    /\ obs = ObsInit

\* ruler.zoom(zoom_in, mouse_pos), dispatched on the ruler's class.
Zoom ==
    /\ nav < MaxNav
    /\ \E zoom_in \in BOOLEAN, p \in AnchorPixels(ruler) :
           /\ ruler' = IF IsItemRuler(ruler) THEN ItemRuler_zoom(ruler, zoom_in, p)
                       ELSE zoom(ruler, zoom_in, p)
           /\ ev' = [op |-> "zoom", zoom_in |-> zoom_in, mouse_pos |-> p]
    /\ nav' = nav + 1
    /\ t_call' = None
    /\ g_call' = None
    /\ UNCHANGED dragVars

Pan ==
    /\ nav < MaxNav
    /\ \E d \in PanDeltas(ruler) :
           /\ ruler' = pan(ruler, d)
           /\ ev' = [op |-> "pan", delta |-> d]
    /\ nav' = nav + 1
    /\ t_call' = None
    /\ g_call' = None
    /\ UNCHANGED dragVars

Transform ==
    /\ IF ev = None THEN TRUE ELSE ev.op # "get_item_at"
    /\ \E v \in ProbeValues(ruler) : t_call' = <<v, transform(ruler, v)>>
    /\ g_call' = None
    /\ UNCHANGED <<ruler, nav, ev, dragVars>>

GetValueAt ==
    /\ IF ev = None THEN TRUE ELSE ev.op # "get_item_at"
    /\ \E p \in ProbePixels(ruler) \cup (IF t_call = None THEN {} ELSE {t_call[2]}) :
           g_call' = <<p, get_value_at(ruler, p)>>
    /\ UNCHANGED <<ruler, nav, t_call, ev, dragVars>>

\* ItemRuler.get_item_at(y) on an ItemRuler. The probes are pure reads: an index probe
\* is recorded on a ruler with no coordinate probe recorded, and the other way round.
GetItemAt ==
    /\ IsItemRuler(ruler)
    /\ t_call = None /\ g_call = None
    /\ \E y \in ProbePixels(ruler) :
           ev' = [op |-> "get_item_at", y |-> y, ret |-> get_item_at(ruler, y)]
    /\ UNCHANGED <<ruler, nav, t_call, g_call, dragVars>>

NextRuler ==
    \/ Zoom
    \/ Pan
    \/ Transform
    \/ GetValueAt
    \/ GetItemAt

SpecRuler == InitRuler /\ [][NextRuler]_vars

-----------------------------------------------------------------------------
(* SpecConstruct: ruler constructors called with valid and invalid            *)
(* configurations.                                                            *)

\* Window bounds handed to BaseRuler.__init__: proper, empty and inverted windows.
CtorWindows == { <<Num(0), Num(10)>>, <<Num(5), Num(5)>>, <<Num(10), Num(0)>>,
                 <<Num(-5), Num(5)>> }

\* Pixel lengths handed to the constructors: negative, zero and positive.
CtorLengths == { Num(-1), Num(0), Num(1), Num(300) }

\* Item counts handed to ItemRuler.__init__.
CtorItemCounts == { 1, 3 }

\* <<min_pixels_per_item, max_pixels_per_item>> handed to ItemRuler.__init__.
CtorDensities == { <<Num(10), Num(100)>>, <<Num(50), Num(40)>>, <<Num(0), Num(100)>>,
                   <<Num(-10), Num(100)>>, <<Num(10), Num(0)>>, <<Num(40), Num(40)>> }

InitConstruct ==
    /\ ruler = None
    /\ nav = 0
    /\ t_call = None
    /\ g_call = None
    /\ ev = None
    /\ item = InitItems
    /\ dd = DragDropManagerInit
    /\ sel = SelectionManagerInit
    /\ handler = InteractionHandlerInit
    /\ obs = ObsInit

\* BaseRuler(window_start, window_stop, length, reverse=reverse): __init__ has no check
\* and no raise statement, the call always yields an object.
NewBaseRuler ==
    /\ \E w \in CtorWindows, length \in CtorLengths, reverse \in BOOLEAN :
          /\ ruler' = BaseRulerInit(w[1], w[2], length, None, None, reverse)
          /\ ev' = [op |-> "BaseRuler", window_start |-> w[1], window_stop |-> w[2],
                    length |-> length, raised |-> FALSE]
    /\ UNCHANGED <<nav, t_call, g_call, dragVars>>

\* ItemRuler(item_count, length, reverse=reverse, min_pixels_per_item=...,
\* max_pixels_per_item=...): no check and no raise statement either.
NewItemRuler ==
    /\ \E item_count \in CtorItemCounts, length \in CtorLengths, reverse \in BOOLEAN,
          d \in CtorDensities :
          /\ ruler' = ItemRulerInit(item_count, length, None, None, reverse,
                                    Num(30), d[1], d[2])
          /\ ev' = [op |-> "ItemRuler", window_start |-> Num(0),
                    window_stop |-> Num(item_count), length |-> length,
                    min_pixels_per_item |-> d[1], max_pixels_per_item |-> d[2],
                    raised |-> FALSE]
    /\ UNCHANGED <<nav, t_call, g_call, dragVars>>

NextConstruct ==
    \/ NewBaseRuler
    \/ NewItemRuler

SpecConstruct == InitConstruct /\ [][NextConstruct]_vars

-----------------------------------------------------------------------------
(* SpecVisible: BaseRuler constructed with an explicit initial visible range. *)

\* Windows handed to the constructor.
VisibleWindows == { <<Num(-50), Num(50)>>, <<Num(0), Num(100)>>, <<Num(-100), Num(0)>> }

\* Candidate bounds of the initial visible range.
VisibleBounds == { Num(10 * k) : k \in -10..10 }

\* BaseRuler(window_start, window_stop, length, visible_start, visible_stop, reverse)
\* with a non-empty visible range inside the window.
NewVisibleRuler ==
    /\ ev = None
    /\ \E w \in VisibleWindows, vs \in VisibleBounds, ve \in VisibleBounds, reverse \in BOOLEAN :
          /\ RLe(w[1], vs) /\ RLt(vs, ve) /\ RLe(ve, w[2])
          /\ ruler' = BaseRulerInit(w[1], w[2], Num(100), vs, ve, reverse)
          /\ ev' = [op |-> "BaseRuler", window_start |-> w[1], window_stop |-> w[2],
                    visible_start |-> vs, visible_stop |-> ve]
    /\ UNCHANGED <<nav, t_call, g_call, dragVars>>

NextVisible ==
    \/ NewVisibleRuler

SpecVisible == InitConstruct /\ [][NextVisible]_vars

-----------------------------------------------------------------------------
(* Ruler claims, checked under SpecRuler.                                  *)

InVisibleRange(r, v) == RLe(r.visible_start, v) /\ RLe(v, r.visible_stop)

\* C8: for a value v inside the visible range, get_value_at(transform(v)) = v and
\* transform(get_value_at(transform(v))) = transform(v), reversed ruler or not.
C8_RoundTrip ==
    (/\ t_call # None
     /\ g_call # None
     /\ g_call[1] = t_call[2]
     /\ InVisibleRange(ruler, t_call[1]))
    => /\ g_call[2] = t_call[1]
       /\ transform(ruler, g_call[2]) = t_call[2]

\* A round trip on a reversed, zoomed or panned ruler for a value strictly inside
\* the visible range.
C8_Witness ==
    /\ nav > 0
    /\ ruler.reverse
    /\ t_call # None
    /\ g_call # None
    /\ g_call[1] = t_call[2]
    /\ RLt(ruler.visible_start, t_call[1])
    /\ RLt(t_call[1], ruler.visible_stop)

\* Ruler(window=[0,100], visible=[20,80], length=100), not reversed.
ScenarioRuler ==
    /\ ruler.window_start = Num(0)
    /\ ruler.window_stop = Num(100)
    /\ ruler.visible_start = Num(20)
    /\ ruler.visible_stop = Num(80)
    /\ ruler.length = Num(100)
    /\ ~ruler.reverse

\* C9 as stated: on the scenario ruler transform(50) = 60 and get_value_at(60) = 50.
C9_Original ==
    ScenarioRuler =>
        /\ (t_call # None /\ t_call[1] = Num(50)) => t_call[2] = Num(60)
        /\ (g_call # None /\ g_call[1] = Num(60)) => g_call[2] = Num(50)

\* C9 (amended): on the scenario ruler transform(50) = 50 and get_value_at(60) = 56.
C9_Scenario ==
    ScenarioRuler =>
        /\ (t_call # None /\ t_call[1] = Num(50)) => t_call[2] = Num(50)
        /\ (g_call # None /\ g_call[1] = Num(60)) => g_call[2] = Num(56)

\* Both calls of the scenario have been made on the scenario ruler.
C9_Witness ==
    /\ ScenarioRuler
    /\ t_call # None /\ t_call[1] = Num(50)
    /\ g_call # None /\ g_call[1] = Num(60)

\* C10: the ends of the visible range map to the ends of the pixel axis, swapped for a
\* reversed ruler: transform(visible_start) = 0, transform(visible_stop) = length,
\* get_value_at(0) = visible_start, get_value_at(length) = visible_stop; and with
\* visible range [20, 80] on 100 pixels transform(50) = 50 and get_value_at(50) = 50.
C10_Endpoints ==
    LET first == IF ruler.reverse THEN ruler.visible_stop ELSE ruler.visible_start
        last == IF ruler.reverse THEN ruler.visible_start ELSE ruler.visible_stop
    IN  /\ (t_call # None /\ t_call[1] = first) => t_call[2] = Num(0)
        /\ (t_call # None /\ t_call[1] = last) => t_call[2] = ruler.length
        /\ (g_call # None /\ g_call[1] = Num(0)) => g_call[2] = first
        /\ (g_call # None /\ g_call[1] = ruler.length) => g_call[2] = last
        /\ (/\ ruler.visible_start = Num(20)
            /\ ruler.visible_stop = Num(80)
            /\ ruler.length = Num(100)
            /\ ~ruler.reverse)
           => /\ (t_call # None /\ t_call[1] = Num(50)) => t_call[2] = Num(50)
              /\ (g_call # None /\ g_call[1] = Num(50)) => g_call[2] = Num(50)

\* On a reversed ruler that was zoomed or panned, visible_stop was transformed and
\* the pixel 0 was mapped back.
C10_Witness ==
    /\ nav > 0
    /\ ruler.reverse
    /\ t_call # None /\ t_call[1] = ruler.visible_stop
    /\ g_call # None /\ g_call[1] = Num(0)

\* C11: for every pixel p, also p < 0 and p > length, get_value_at(p) lies in
\* [visible_start, visible_stop] and equals get_value_at(min(max(p, 0), length)).
C11_PixelClamped ==
    g_call # None
    => /\ InVisibleRange(ruler, g_call[2])
       /\ g_call[2] = get_value_at(ruler, RMin(RMax(g_call[1], Num(0)), ruler.length))

\* get_value_at was called with a pixel left of 0 and with one right of length on a
\* ruler that was zoomed or panned to a proper sub-range of the window.
C11_Witness ==
    /\ nav > 0
    /\ ruler.visible_length # ruler.window_length
    /\ g_call # None
    /\ RLt(ruler.length, g_call[1])

\* The step is a call of ruler.zoom.
ZoomStep == nav' = nav + 1 /\ ev'.op = "zoom"

\* The visible length a zoom call aims at: scaled by the class's factor, the density
\* clamped for an ItemRuler, capped at the window length.
ZoomTargetLength(r, zoom_in) ==
    IF IsItemRuler(r)
    THEN LET f == IF zoom_in THEN ItemZoomInFactor ELSE ItemZoomOutFactor
             ppi == RMax(r.min_pixels_per_item,
                         RMin(RMul(RDiv(r.length, r.visible_length), f),
                              r.max_pixels_per_item))
         IN  RMin(RDiv(r.length, ppi), r.window_length)
    ELSE RMin(RDiv(r.visible_length, IF zoom_in THEN ZoomInFactor ELSE ZoomOutFactor),
              r.window_length)

\* The range anchored at the value under pixel p fits into the window as it is.
NoClampNeeded(r, zoom_in, p) ==
    LET v == get_value_at(r, p)
        n == ZoomTargetLength(r, zoom_in)
        s0 == RSub(v, RMul(RDiv(RSub(v, r.visible_start), r.visible_length), n))
    IN  RLe(r.window_start, s0) /\ RLe(RAdd(s0, n), r.window_stop)

\* C12: when zoom(zoom_in, p) with p in [0, length] needs no clamping against the
\* window bounds, get_value_at(p) is the same after the call as before it, for
\* reversed and non-reversed rulers, for BaseRuler.zoom and ItemRuler.zoom.
C12_AnchorFixed ==
    [][(/\ ZoomStep
        /\ RLe(Num(0), ev'.mouse_pos)
        /\ RLe(ev'.mouse_pos, ruler.length)
        /\ NoClampNeeded(ruler, ev'.zoom_in, ev'.mouse_pos))
       => get_value_at(ruler', ev'.mouse_pos) = get_value_at(ruler, ev'.mouse_pos)]_vars

\* A reversed ruler was zoomed at pixel 0 and its visible range lies strictly inside
\* the window afterwards: nothing was clamped.
C12_Witness ==
    /\ ev # None
    /\ ev.op = "zoom"
    /\ ruler.reverse
    /\ ev.mouse_pos = Num(0)
    /\ RLt(ruler.window_start, ruler.visible_start)
    /\ RLt(ruler.visible_stop, ruler.window_stop)

\* The visible pixel density of a ruler: length / visible_length.
Density(r) == RDiv(r.length, r.visible_length)

\* The last navigation call was ItemRuler.zoom.
AfterItemZoom == ev # None /\ ev.op = "zoom" /\ IsItemRuler(ruler)

SpanFloor(r) == RMul(<<1, 2>>, r.window_length)

\* C14 as stated, for a minimum window span of half the window length: a zoom-in call
\* of BaseRuler.zoom never takes a visible_length that is at least the minimum window
\* span below it.
C14_Original ==
    [][(/\ ZoomStep
        /\ ~IsItemRuler(ruler)
        /\ ev'.zoom_in
        /\ RLe(SpanFloor(ruler), ruler.visible_length))
       => RLe(SpanFloor(ruler), ruler'.visible_length)]_vars

C16_ItemIndexInRange ==
    (ev # None /\ ev.op = "get_item_at")
    => /\ ev.ret \in Int
       /\ 0 <= ev.ret
       /\ ev.ret <= ruler.item_count - 1

\* get_item_at was asked for a pixel beyond the axis whose value is item_count itself,
\* after a zoom or pan call: the index was clamped to the last item.
C16_Witness ==
    /\ ev # None
    /\ ev.op = "get_item_at"
    /\ nav > 0
    /\ RLt(ruler.length, ev.y)
    /\ get_value_at(ruler, ev.y) = Num(ruler.item_count)
    /\ ev.ret = ruler.item_count - 1

\* The configuration of the last constructor call is one the spec rejects.
InvalidConfiguration ==
    \/ RLe(ev.window_stop, ev.window_start)
    \/ RLe(ev.length, Num(0))
    \/ /\ ev.op = "ItemRuler"
       /\ \/ RLt(ev.max_pixels_per_item, ev.min_pixels_per_item)
          \/ RLe(ev.min_pixels_per_item, Num(0))
          \/ RLe(ev.max_pixels_per_item, Num(0))

\* C17 as stated: constructing a ruler with window_stop <= window_start or a
\* non-positive length, or an ItemRuler with min_pixels_per_item > max_pixels_per_item
\* or a non-positive pixels-per-item bound, fails with a configuration error instead of
\* producing a ruler object. Checked under SpecConstruct.
C17_Original ==
    (ev # None /\ ev.op \in {"BaseRuler", "ItemRuler"} /\ InvalidConfiguration)
    => ev.raised /\ ruler = None

-----------------------------------------------------------------------------
(* Drag-and-drop claims, checked under SpecDrag.                           *)

\* The k-th dragged item has exactly the geometry of its start_drag snapshot.
AtSnapshot(k) == StateOf(item[obs.start_items[k]]) = obs.start_states[k]

\* C1: when can_drop returns false in end_drag, every dragged item is back at the
\* (x, y, width, height) snapshot taken at start_drag, end_drag returns False and
\* on_drop is not invoked.
C1_RollbackIsTotal ==
    (obs.last_op = "end_drag" /\ obs.end_can_drop = "false")
    => /\ \A k \in 1..Len(obs.start_items) : AtSnapshot(k)
       /\ obs.end_result = "false"
       /\ ~obs.drop_called

\* Two items were dragged away from their snapshots and the drop was rejected.
C1_Witness ==
    /\ obs.last_op = "end_drag"
    /\ obs.end_can_drop = "false"
    /\ Len(obs.start_items) = 2
    /\ obs.updated
    /\ obs.end_dirty
    /\ dd.on_drop = "set"

\* C2: when end_drag accepts the drop, on_drop is invoked with the complete list of
\* dragged items and sees dragging = False and dragged_items, original_states,
\* drag_start_pos and resize_mode already cleared.
C2_ClearedBeforeOnDrop ==
    /\ (obs.last_op = "end_drag" /\ obs.end_can_drop \in {"unset", "true"}
        /\ dd.on_drop = "set") => obs.drop_called
    /\ obs.drop_called =>
          /\ obs.drop_arg = obs.start_items
          /\ obs.drop_seen.dragging = FALSE
          /\ obs.drop_seen.dragged_items = <<>>
          /\ obs.drop_seen.original_states = <<>>
          /\ obs.drop_seen.drag_start_pos = None
          /\ obs.drop_seen.resize_mode = NoHandle

\* A resize drag of two items was accepted and on_drop was called.
C2_Witness ==
    /\ obs.last_op = "end_drag"
    /\ obs.drop_called
    /\ Len(obs.drop_arg) = 2
    /\ obs.end_dirty

\* C3: with no on_drag_update hook a resize keeps the edge opposite to the handle where
\* the snapshot has it: LEFT keeps x + width, RIGHT keeps x, TOP keeps y + height,
\* BOTTOM keeps y, whatever the pointer position, the snaps and the size limits.
C3_OppositeEdgeFixed ==
    (dd.dragging /\ obs.updated /\ dd.on_drag_update = "unset")
    => \A k \in 1..Len(dd.dragged_items) :
          LET it == item[dd.dragged_items[k]]
              o == obs.start_states[k]
          IN  /\ dd.resize_mode = "left" => RAdd(it.x, it.width) = RAdd(o.x, o.width)
              /\ dd.resize_mode = "right" => it.x = o.x
              /\ dd.resize_mode = "top" => RAdd(it.y, it.height) = RAdd(o.y, o.height)
              /\ dd.resize_mode = "bottom" => it.y = o.y

\* A LEFT resize with a snap function configured was clamped: the item's width changed
\* and is no longer what the pointer asked for.
C3_Witness ==
    /\ dd.dragging
    /\ obs.updated
    /\ dd.on_drag_update = "unset"
    /\ dd.resize_mode = "left"
    /\ dd.snap_resize_x_func # "unset"
    /\ \E k \in 1..Len(dd.dragged_items) :
          /\ item[dd.dragged_items[k]].width # obs.start_states[k].width
          /\ item[dd.dragged_items[k]].width = Num(2)

\* The size limits in force for an item: its own capability when set, else the
\* handler-wide value of set_size_constraints.
EffMinWidth(i) == IF ItemCaps[i].min_width # None THEN ItemCaps[i].min_width ELSE dd.min_width
EffMaxWidth(i) == IF ItemCaps[i].max_width # None THEN ItemCaps[i].max_width ELSE dd.max_width
EffMinHeight(i) == IF ItemCaps[i].min_height # None THEN ItemCaps[i].min_height ELSE dd.min_height
EffMaxHeight(i) == IF ItemCaps[i].max_height # None THEN ItemCaps[i].max_height ELSE dd.max_height

Within(v, lo, hi) == (lo # None /\ hi # None /\ RLe(lo, hi)) => (RLe(lo, v) /\ RLe(v, hi))

\* C4 as stated: after every resize update_drag (no hook) the width (LEFT/RIGHT) or
\* height (TOP/BOTTOM) of an item whose effective minimum is not above its effective
\* maximum lies within [effective min, effective max].
C4_Original ==
    (dd.dragging /\ obs.last_op = "update_drag" /\ obs.updated
     /\ dd.on_drag_update = "unset")
    => \A k \in 1..Len(dd.dragged_items) :
          LET i == dd.dragged_items[k]
          IN  /\ dd.resize_mode \in {"left", "right"}
                    => Within(item[i].width, EffMinWidth(i), EffMaxWidth(i))
              /\ dd.resize_mode \in {"top", "bottom"}
                    => Within(item[i].height, EffMinHeight(i), EffMaxHeight(i))

-----------------------------------------------------------------------------
(* Rubber-band claims, checked under SpecHandler.                          *)

\* The managed items whose bounds intersect the current band rectangle.
InBand == { i \in Items : \E k \in 1..Len(handler.items) :
                             handler.items[k] = i /\ IntersectsBand(item[i], BandRect(sel)) }

C7_Original ==
    (obs.last_op = "move_band" /\ obs.band_shift /\ sel.banding)
    => obs.band_kept \subseteq sel.selected_items

-----------------------------------------------------------------------------
(* Press and drag-initiation claims, checked under SpecGesture.             *)

\* The positions in handler.items of the items containing the pixel position pos.
Hits(pos) ==
    { k \in 1..Len(handler.items) :
        contains(item[handler.items[k]], get_value_at(XRuler, pos[1]),
                 get_value_at(YRuler, pos[2])) }

\* C18: a press at a point contained in at least one managed item targets the first
\* such item in insertion order; without ctrl, if that item was not already selected,
\* the selected set becomes exactly that item; with ctrl the item is added and every
\* previously selected item stays selected.
C18_PressTargetsFirstHit ==
    [][ (ev'.op = "press" /\ Hits(ev'.pos) # {})
        => \E k \in Hits(ev'.pos) :
              /\ \A j \in Hits(ev'.pos) : k <= j
              /\ handler'.press_item = handler.items[k]
              /\ (~ev'.ctrl /\ handler.items[k] \notin sel.selected_items)
                 => sel'.selected_items = {handler.items[k]}
              /\ ev'.ctrl
                 => sel'.selected_items = sel.selected_items \cup {handler.items[k]} ]_vars

\* A ctrl-press on the overlap of B and C while A and C were selected: B, added before
\* C, is the target and joins the selection.
C18_Witness ==
    /\ ev # None /\ ev.op = "press" /\ ev.ctrl
    /\ ev.pos = Pt(105, 40)
    /\ handler.press_item = "B"
    /\ sel.selected_items = {"A", "B", "C"}

\* C19: a press at a point contained in no managed item starts a rubber band (banding
\* becomes true with band start = band end = press position); without shift the
\* selected set is emptied and every item's selected flag cleared, with shift the
\* selected set is left exactly as it was before the press.
C19_PressOnEmptyStartsBand ==
    [][ (ev'.op = "press" /\ Hits(ev'.pos) = {})
        => /\ sel'.banding
           /\ sel'.band_start = ev'.pos
           /\ sel'.band_end = ev'.pos
           /\ ~ev'.shift => /\ sel'.selected_items = {}
                            /\ \A i \in Items : ~item'[i].selected
           /\ ev'.shift => sel'.selected_items = sel.selected_items ]_vars

\* A shift-press on empty space with A and B selected: the band has started at the
\* press position and both are still selected.
C19_Witness ==
    /\ ev # None /\ ev.op = "press" /\ ev.shift
    /\ handler.press_item = "none"
    /\ sel.banding
    /\ sel.band_start = ev.pos /\ sel.band_end = ev.pos
    /\ sel.selected_items = {"A", "B"}

\* The pixel position of the edge h of item i.
EdgePixel(i, h) ==
    CASE h = "left"  -> transform(XRuler, item[i].x)
      [] h = "right" -> transform(XRuler, RAdd(item[i].x, item[i].width))
      [] h = "top"   -> transform(YRuler, item[i].y)
      [] OTHER       -> transform(YRuler, RAdd(item[i].y, item[i].height))

\* The pixel position pos lies on an enabled resize handle of item i: inside the item,
\* the item resizable, and within the handle tolerance of an edge it enables.
OnEnabledHandle(i, pos) ==
    /\ ItemCaps[i].can_resize
    /\ i \in { handler.items[k] : k \in Hits(pos) }
    /\ \E h \in ItemCaps[i].resize_handles :
          RLt(RAbs(RSub(IF h \in {"left", "right"} THEN pos[1] ELSE pos[2],
                        EdgePixel(i, h))),
              Num(HandleTolerance))

\* The move event of this step begins a drag.
StartsDrag == ~dd.dragging /\ dd'.dragging

C20_WitnessThreshold ==
    /\ ev # None /\ ev.op = "move" /\ ev.pos = Pt(43, 27)
    /\ handler.press_pos = Pt(40, 25)
    /\ handler.press_item = "A"
    /\ ~dd.dragging

Idle ==
    /\ ~dd.dragging
    /\ ~sel.banding
    /\ dd.dragged_items = <<>>
    /\ dd.original_states = <<>>
    /\ dd.resize_mode = NoHandle
    /\ dd.drag_start_pos = None
    /\ handler.press_pos = None
    /\ handler.press_item = "none"

\* C22: after every release event (with callbacks that do not raise) the engine is
\* Idle, whether the drop was committed or rolled back and whether or not a band was
\* active: dragging and banding are false, dragged_items and original_states are empty,
\* resize_mode and drag_start_pos are unset, press position and press item are cleared.
C22_IdleAfterRelease ==
    (ev # None /\ ev.op = "release") => Idle

\* A release that ended a resize drag of two items by a rollback.
C22_Witness ==
    /\ ev # None /\ ev.op = "release"
    /\ obs.last_op = "release_drag"
    /\ obs.end_result = "false"
    /\ obs.end_can_drop = "false"
    /\ Len(obs.start_items) = 2
    /\ Idle

\* A release that ended a rubber band.
C22_WitnessBand ==
    /\ ev # None /\ ev.op = "release"
    /\ obs.last_op = "release_band"
    /\ Idle

-----------------------------------------------------------------------------
(* update_drag claims, checked under SpecUpdate.                            *)

\* The pointer displacement of the update_drag call of this step, in data units.
RawDx == RSub(get_value_at(XRuler, ev'.pos[1]), get_value_at(XRuler, dd.drag_start_pos[1]))
RawDy == RSub(get_value_at(YRuler, ev'.pos[2]), get_value_at(YRuler, dd.drag_start_pos[2]))

\* This step is an update_drag call during a drag.
UpdateStep ==
    IF ev' = None THEN FALSE
    ELSE ev'.op = "update_drag" /\ dd.dragging /\ dd.drag_start_pos # None

\* The geometry snapping and size clamping give the k-th dragged item in this step.
SnappedClamped(k) ==
    UpdateDragItem_nohook(dd, item[dd.dragged_items[k]], ItemCaps[dd.dragged_items[k]],
                          dd.original_states[k], RawDx, RawDy)

\* C23: when on_drag_update returns a non-empty tuple for an item during update_drag,
\* the item's geometry after that update is the hook's result ((x, y) from a tuple of 2
\* or 3 values, (x, y, width, height) from a tuple of 4 or more), whatever the snap
\* functions and the size clamping computed; when the hook returns nothing, the snapped
\* and clamped geometry is kept.
C23_HookOverrides ==
    [][ (UpdateStep /\ dd.on_drag_update # "unset")
        => \A k \in 1..Len(dd.dragged_items) :
              LET i == dd.dragged_items[k]
                  res == on_drag_update_result(dd.on_drag_update, SnappedClamped(k))
              IN  /\ Len(res) \in {2, 3}
                     => /\ item'[i].x = res[1] /\ item'[i].y = res[2]
                        /\ item'[i].width = SnappedClamped(k).width
                        /\ item'[i].height = SnappedClamped(k).height
                  /\ Len(res) >= 4
                     => /\ item'[i].x = res[1] /\ item'[i].y = res[2]
                        /\ item'[i].width = res[3] /\ item'[i].height = res[4]
                  /\ Len(res) = 0 => StateOf(item'[i]) = StateOf(SnappedClamped(k)) ]_vars

\* A RIGHT resize of B and A with snap functions configured and a hook returning five
\* values: B has the hook's width 7, above its maximum width 4.
C23_Witness ==
    /\ ev # None /\ ev.op = "update_drag"
    /\ dd.dragging
    /\ dd.on_drag_update = "wide5"
    /\ dd.resize_mode = "right"
    /\ dd.snap_resize_x_func # "unset"
    /\ dd.dragged_items = <<"B", "A">>
    /\ item["B"].width = Num(7)
    /\ ItemCaps["B"].max_width = Num(4)

\* This step is a start_drag call.
StartStep ==
    IF ev' = None THEN FALSE
    ELSE ev'.op = "start_drag" /\ obs'.drags = obs.drags + 1

\* C24: start_drag evaluates can_drop once on the dragged items, and every update_drag
\* during a drag re-evaluates can_drop exactly once, after all dragged items have
\* received their new geometry, passing the full list of dragged items; the cached
\* validity flag equals the most recent can_drop result, and is true when no can_drop is
\* configured.
C24_CanDropPerUpdate ==
    [][ /\ StartStep
           => IF dd.can_drop = "unset"
              THEN ev'.calls = <<>> /\ dd'.last_valid = TRUE
              ELSE /\ Len(ev'.calls) = 1
                   /\ ev'.calls[1].arg = ev'.items
                   /\ dd'.last_valid = ev'.valid
        /\ UpdateStep
           => IF dd.can_drop = "unset"
              THEN ev'.calls = <<>> /\ dd'.last_valid = TRUE
              ELSE /\ Len(ev'.calls) = 1
                   /\ ev'.calls[1].arg = dd.dragged_items
                   /\ ev'.calls[1].saw = item'
                   /\ dd'.last_valid = ev'.valid ]_vars

\* An update_drag of B and A moved both away from their snapshots; can_drop was
\* evaluated once on both, saw the new geometry and returned False.
C24_Witness ==
    /\ ev # None /\ ev.op = "update_drag"
    /\ dd.dragging
    /\ dd.can_drop = "set"
    /\ Len(ev.calls) = 1
    /\ ev.calls[1].arg = <<"B", "A">>
    /\ ev.calls[1].saw = item
    /\ \A k \in 1..2 : StateOf(item[dd.dragged_items[k]]) # dd.original_states[k]
    /\ ~ev.valid
    /\ ~dd.last_valid

-----------------------------------------------------------------------------
(* SelectionManager claims, checked under SpecSelect.                       *)

\* C25: select(item, add=false) leaves the selected set equal to exactly {item} and
\* clears the selected flag of every other previously selected item; select(item,
\* add=true) leaves the selected set equal to the previous set plus item.
C25_SelectExclusiveOrUnion ==
    [][ (IF ev' = None THEN FALSE ELSE ev'.op = "select")
        => IF ev'.add
           THEN sel'.selected_items = sel.selected_items \cup {ev'.item}
           ELSE /\ sel'.selected_items = {ev'.item}
                /\ \A j \in sel.selected_items \ {ev'.item} : ~item'[j].selected ]_vars

\* select(A, add=False) while B and C were selected: A alone is selected and the flags
\* of B and C are cleared.
C25_Witness ==
    /\ ev # None /\ ev.op = "select" /\ ~ev.add
    /\ ev.item = "A"
    /\ ev.before = {"B", "C"}
    /\ sel.selected_items = {"A"}
    /\ item["A"].selected /\ ~item["B"].selected /\ ~item["C"].selected

-----------------------------------------------------------------------------
(* Resize handle claims, checked under SpecHandle.                          *)

\* The handles in the order the lookup prefers them.
HandleOrder == <<"left", "right", "top", "bottom">>

\* The distance of the probed point from the edge of handle h.
EdgeDistance(h) ==
    CASE h = "left"  -> RAbs(RSub(ev.x, ev.it.x))
      [] h = "right" -> RAbs(RSub(ev.x, RAdd(ev.it.x, ev.it.width)))
      [] h = "top"   -> RAbs(RSub(ev.y, ev.it.y))
      [] OTHER       -> RAbs(RSub(ev.y, RAdd(ev.it.y, ev.it.height)))

\* Handle h is enabled for the probed item and its edge is closer than the tolerance.
Grabbable(h) ==
    /\ h \in ev.cap.resize_handles
    /\ RLt(EdgeDistance(h), IF h \in {"left", "right"} THEN HandleTolX ELSE HandleTolY)

\* C26: get_resize_handle_at returns no handle when the item is not resizable or the
\* point is outside the item's bounds; otherwise it returns the first handle in the
\* order LEFT, RIGHT, TOP, BOTTOM that is enabled for the item and whose edge is closer
\* to the point than the tolerance, so a point near both a horizontal and a vertical
\* enabled edge yields the horizontal handle, and a handle not in the item's enabled set
\* is never returned.
C26_FirstEnabledHandle ==
    (ev # None /\ ev.op = "get_resize_handle_at")
    => IF ~ev.cap.can_resize \/ ~contains(ev.it, ev.x, ev.y)
       THEN ev.ret = NoHandle
       ELSE /\ ev.ret # NoHandle => ev.ret \in ev.cap.resize_handles
            /\ (\A k \in 1..4 : ~Grabbable(HandleOrder[k])) => ev.ret = NoHandle
            /\ \A k \in 1..4 :
                  (Grabbable(HandleOrder[k]) /\ \A j \in 1..(k - 1) : ~Grabbable(HandleOrder[j]))
                  => ev.ret = HandleOrder[k]

\* A point in the corner of an item with all four handles enabled, closer to the top
\* edge than to the left one: the lookup answers LEFT.
C26_Witness ==
    /\ ev # None /\ ev.op = "get_resize_handle_at"
    /\ ev.cap.can_resize
    /\ ev.cap.resize_handles = ResizeHandles
    /\ Grabbable("left") /\ Grabbable("top")
    /\ RLt(EdgeDistance("top"), EdgeDistance("left"))
    /\ ev.ret = "left"

\* The same corner with LEFT not enabled: the lookup answers TOP.
C26_WitnessDisabled ==
    /\ ev # None /\ ev.op = "get_resize_handle_at"
    /\ ev.cap.can_resize
    /\ ev.cap.resize_handles = {"top", "bottom"}
    /\ RLt(EdgeDistance("left"), HandleTolX)
    /\ ev.ret = "top"

-----------------------------------------------------------------------------
(* Batch update claims, checked under SpecBatch.                            *)

\* C27: inside a batch_update scope, including nested scopes, add_item, remove_item and
\* clear_items request no redraw while the item list and the selected set are changed
\* immediately; exactly one redraw is requested when the outermost scope exits, also
\* when the scope body raises, and the batch depth is back at its value from before the
\* scope and never negative.
C27_BatchDefersRedraw ==
    [][ /\ handler'.batch_depth >= 0
        /\ (ev.scopes # <<>> /\ ev'.op = "add_item")
           => /\ ev'.redraws = 0
              /\ handler'.items = Append(handler.items, ev'.item)
        /\ (ev.scopes # <<>> /\ ev'.op = "remove_item" /\ InList(handler.items, ev'.item))
           => /\ ev'.redraws = 0
              /\ Len(handler'.items) = Len(handler.items) - 1
              /\ ev'.item \notin sel'.selected_items
              /\ sel'.selected_items = sel.selected_items \ {ev'.item}
        /\ (ev.scopes # <<>> /\ ev'.op = "clear_items")
           => /\ ev'.redraws = 0
              /\ handler'.items = <<>>
              /\ sel'.selected_items = {}
        /\ ev'.op = "batch_exit"
           => /\ ev'.redraws = (IF Len(ev.scopes) = 1 THEN 1 ELSE 0)
              /\ handler'.batch_depth = ev.scopes[Len(ev.scopes)] ]_vars

\* The outermost of two nested scopes was left by an exception after the items had been
\* cleared inside: one redraw is requested and the depth is 0 again.
C27_Witness ==
    /\ ev.op = "batch_exit"
    /\ ev.raised
    /\ ev.scopes = <<>>
    /\ ev.redraws = 1
    /\ handler.batch_depth = 0
    /\ handler.items = <<>>

\* add_item inside a nested scope requested no redraw and the item is in the list.
C27_WitnessNested ==
    /\ ev.op = "add_item"
    /\ Len(ev.scopes) = 2
    /\ ev.redraws = 0
    /\ handler.items # <<>>
    /\ handler.items[Len(handler.items)] = ev.item

-----------------------------------------------------------------------------
(* Data sync claims, checked under SpecSync.                                *)

\* C28 as stated: sync_to_data called without a caller-supplied mapping callback writes
\* no attribute of the item's data object: the engine never guesses field names such as
\* x, y, width, height, start, duration or employee_id.
C28_Original ==
    (ev # None /\ ev.op = "sync_to_data" /\ ev.callback = "unset")
    => ev.after = ev.before

-----------------------------------------------------------------------------
(* One transition per pointer event, checked under SpecGesture.             *)

\* Some item's geometry differs before and after this step.
GeometryChanges == \E i \in DOMAIN item : StateOf(item'[i]) # StateOf(item[i])

\* C29: each pointer event performs exactly one state transition: the move event that
\* starts a drag (Idle to Dragging) changes no item's geometry and does not also update
\* a band, and item geometry first changes on a later move event that is handled while
\* dragging.
C29_OneTransitionPerEvent ==
    [][ ev'.op = "move"
        => /\ StartsDrag => /\ ~GeometryChanges
                             /\ sel' = sel
                             /\ ~obs'.updated
           /\ GeometryChanges => dd.dragging /\ dd'.dragging ]_vars

\* A drag in which a later move event has displaced a dragged item from the geometry
\* snapshotted when the drag began.
C29_Witness ==
    /\ ev # None /\ ev.op = "move"
    /\ dd.dragging
    /\ obs.last_op = "move_drag"
    /\ \E k \in 1..Len(dd.dragged_items) :
          StateOf(item[dd.dragged_items[k]]) # dd.original_states[k]

\* The state right after the move event that began the drag: dragging, nothing moved.
C29_WitnessStart ==
    /\ ev # None /\ ev.op = "move"
    /\ dd.dragging
    /\ obs.last_op = "move_start_drag"
    /\ \A k \in 1..Len(dd.dragged_items) :
          StateOf(item[dd.dragged_items[k]]) = dd.original_states[k]

-----------------------------------------------------------------------------
(* Snap selection claims, checked under SpecUpdate.                         *)

\* The size bound in force for an item: its own when set, else the manager's.
BoundInForce(own, global) == IF own # None THEN own ELSE global

\* The minimum size in force, 0.1 when neither the item nor the manager sets one.
MinInForce(own, global) ==
    IF BoundInForce(own, global) = None THEN <<1, 10>> ELSE BoundInForce(own, global)

\* A size the clamp leaves alone: not below the minimum, not above a non-zero maximum.
WithinBounds(size, min_s, max_s) ==
    /\ ~RLt(size, min_s)
    /\ ~(max_s # None /\ max_s[1] # 0 /\ RLt(max_s, size))

\* The snap function a resize uses on an axis: the resize-specific one when configured.
ResizeSnap(resize_f, move_f) == IF resize_f # "unset" THEN resize_f ELSE move_f

\* The pointer displacement since the drag began, read from a state after update_drag.
LastDx == RSub(get_value_at(XRuler, ev.pos[1]), get_value_at(XRuler, dd.drag_start_pos[1]))
LastDy == RSub(get_value_at(YRuler, ev.pos[2]), get_value_at(YRuler, dd.drag_start_pos[2]))

\* C30: during a resize drag, the coordinate of the moving edge is snapped with the
\* resize-specific snap function of that axis when one is configured and otherwise with
\* the move snap function of the same axis (the edge lands there unless the size clamp
\* holds it back); during a move drag only the move snap functions are applied, never
\* the resize-specific ones. Stated for updates whose on_drag_update hook returns nothing.
C30_SnapSelection ==
    [][ (UpdateStep /\ dd.on_drag_update \in {"unset", "none"})
        => \A k \in 1..Len(dd.dragged_items) :
              LET i == dd.dragged_items[k]
                  o == dd.original_states[k]
                  cap == ItemCaps[i]
                  fx == ResizeSnap(dd.snap_resize_x_func, dd.snap_cx_func)
                  fy == ResizeSnap(dd.snap_resize_y_func, dd.snap_cy_func)
                  min_w == MinInForce(cap.min_width, dd.min_width)
                  min_h == MinInForce(cap.min_height, dd.min_height)
                  max_w == BoundInForce(cap.max_width, dd.max_width)
                  max_h == BoundInForce(cap.max_height, dd.max_height)
                  right == RAdd(o.x, o.width)
                  bottom == RAdd(o.y, o.height)
                  n == item'[i]
              IN  CASE dd.resize_mode = "left" ->
                         LET e == _apply_snap(fx, RAdd(o.x, RawDx), item[i])
                         IN  WithinBounds(RSub(right, e), min_w, max_w)
                             => n.x = e /\ RAdd(n.x, n.width) = right
                    [] dd.resize_mode = "right" ->
                         LET e == _apply_snap(fx, RAdd(right, RawDx), item[i])
                         IN  WithinBounds(RSub(e, o.x), min_w, max_w)
                             => n.x = o.x /\ RAdd(n.x, n.width) = e
                    [] dd.resize_mode = "top" ->
                         LET e == _apply_snap(fy, RAdd(o.y, RawDy), item[i])
                         IN  WithinBounds(RSub(bottom, e), min_h, max_h)
                             => n.y = e /\ RAdd(n.y, n.height) = bottom
                    [] dd.resize_mode = "bottom" ->
                         LET e == _apply_snap(fy, RAdd(bottom, RawDy), item[i])
                         IN  WithinBounds(RSub(e, o.y), min_h, max_h)
                             => n.y = o.y /\ RAdd(n.y, n.height) = e
                    [] OTHER ->
                         /\ n.x = _apply_snap(dd.snap_cx_func, RAdd(o.x, RawDx), item[i])
                         /\ n.y = _apply_snap(dd.snap_cy_func, RAdd(o.y, RawDy), item[i])
                         /\ n.width = item[i].width /\ n.height = item[i].height ]_vars

\* A horizontal resize with both an x move snap (whole units) and an x resize snap
\* (multiples of 2) configured: the moving edge sits on the multiple of 2, which is
\* not where the move snap would have put it.
C30_Witness ==
    /\ ev # None /\ ev.op = "update_drag"
    /\ dd.dragging
    /\ dd.on_drag_update = "unset"
    /\ dd.resize_mode = "right"
    /\ dd.snap_cx_func = "floor" /\ dd.snap_resize_x_func = "grid2"
    /\ \E k \in 1..Len(dd.dragged_items) :
          LET i == dd.dragged_items[k]
              right == RAdd(dd.original_states[k].x, dd.original_states[k].width)
              e == RAdd(right, LastDx)
          IN  /\ RAdd(item[i].x, item[i].width) = _apply_snap("grid2", e, item[i])
              /\ _apply_snap("grid2", e, item[i]) # _apply_snap("floor", e, item[i])

\* A vertical resize with no y resize snap configured: the moving edge sits where the
\* y move snap puts it, off the unsnapped position.
C30_WitnessFallback ==
    /\ ev # None /\ ev.op = "update_drag"
    /\ dd.dragging
    /\ dd.on_drag_update = "unset"
    /\ dd.resize_mode = "bottom"
    /\ dd.snap_cy_func = "floor" /\ dd.snap_resize_y_func = "unset"
    /\ \E k \in 1..Len(dd.dragged_items) :
          LET i == dd.dragged_items[k]
              bottom == RAdd(dd.original_states[k].y, dd.original_states[k].height)
              e == RAdd(bottom, LastDy)
          IN  /\ RAdd(item[i].y, item[i].height) = _apply_snap("floor", e, item[i])
              /\ _apply_snap("floor", e, item[i]) # e

\* A move drag with an x resize snap configured: x sits where the move snap puts it,
\* which is not a position the resize snap would have chosen.
C30_WitnessMove ==
    /\ ev # None /\ ev.op = "update_drag"
    /\ dd.dragging
    /\ dd.on_drag_update = "unset"
    /\ dd.resize_mode = NoHandle
    /\ dd.snap_cx_func = "floor" /\ dd.snap_resize_x_func = "grid2"
    /\ \E k \in 1..Len(dd.dragged_items) :
          LET i == dd.dragged_items[k]
              e == RAdd(dd.original_states[k].x, LastDx)
          IN  /\ item[i].x = _apply_snap("floor", e, item[i])
              /\ _apply_snap("floor", e, item[i]) # _apply_snap("grid2", e, item[i])

-----------------------------------------------------------------------------
(* Capability claims, checked under SpecGesture.                            *)

\* C31 as stated: an item whose capabilities.can_move is false never has its x or y
\* changed by a move drag gesture, whether it is pressed and dragged alone or is part
\* of a multi-item selection being dragged.
C31_Original ==
    [][ (ev'.op = "move" /\ dd.dragging /\ dd.resize_mode = NoHandle)
        => \A i \in Items :
              ~ItemCaps[i].can_move => item'[i].x = item[i].x /\ item'[i].y = item[i].y ]_vars

\* C32 as stated: during a resize drag of a multi-item selection, a selected item whose
\* capabilities.can_resize is false, or whose resize_handles does not contain the
\* active handle, keeps its x, y, width and height unchanged; only items that allow the
\* active handle are resized.
C32_Original ==
    [][ (ev'.op = "move" /\ dd.dragging /\ dd.resize_mode # NoHandle)
        => \A i \in Items :
              (~ItemCaps[i].can_resize \/ dd.resize_mode \notin ItemCaps[i].resize_handles)
              => StateOf(item'[i]) = StateOf(item[i]) ]_vars

-----------------------------------------------------------------------------
(* Selection consistency claims, checked under SpecManage.                  *)

\* In the state after this step, the selected flags and the selected set agree and
\* every selected item is managed.
SelectionConsistentAfter ==
    /\ \A i \in Items : item'[i].selected <=> i \in sel'.selected_items
    /\ \A i \in sel'.selected_items : InList(handler'.items, i)

\* C33 as stated: after any sequence of add_item, remove_item, clear_items,
\* clear_selection, press, move and release on items that were created unselected, an
\* item's selected flag is true exactly when the item is in selected_items, and every
\* item in selected_items is in the managed item list; remove_item and clear_items
\* deselect the items they remove.
C33_Original ==
    [][ /\ SelectionConsistentAfter
        /\ ev'.op = "remove_item" /\ ev'.was_managed
           => ev'.item \notin sel'.selected_items /\ ~item'[ev'.item].selected
        /\ ev'.op = "clear_items"
           => sel'.selected_items = {} /\ \A i \in Items : ~item'[i].selected ]_vars

-----------------------------------------------------------------------------
(* Interaction state claims, checked under SpecHandler.                     *)

\* C34: in every state reachable by pointer event sequences in which each press is
\* followed by a release before the next press, a drag and a rubber band are never
\* active at the same time, and whenever a drag is active the dragged item list is
\* non-empty and has the same length as the list of snapshots.
C34_DragExcludesBand ==
    /\ ~(dd.dragging /\ sel.banding)
    /\ dd.dragging => /\ Len(dd.dragged_items) > 0
                      /\ Len(dd.dragged_items) = Len(dd.original_states)

\* A drag of two items in the second gesture of a session.
C34_Witness ==
    /\ dd.dragging
    /\ ~sel.banding
    /\ obs.presses = 2
    /\ Len(dd.dragged_items) = 2
    /\ Len(dd.original_states) = 2

\* A rubber band held with Shift over a non-empty selection, the pointer further than
\* the drag threshold from the press position, and no drag.
C34_WitnessBand ==
    /\ sel.banding
    /\ ~dd.dragging
    /\ sel.selected_items # {}
    /\ obs.last_op = "move_band"
    /\ obs.presses = 2

-----------------------------------------------------------------------------
(* Drop claims, checked under SpecGesture.                                  *)

\* C35: on the release that ends a drag, an accepted drop leaves the selected set empty
\* (it is cleared after on_drop has run, with every item's selected flag false), while
\* a rejected drop leaves the selected set exactly as it was during the drag.
C35_SelectionAfterDrop ==
    (ev # None /\ ev.op = "release" /\ obs.last_op = "release_drag")
    => /\ obs.end_result = "true"
          => /\ sel.selected_items = {}
             /\ \A i \in Items : ~item[i].selected
             /\ obs.drop_called
       /\ obs.end_result = "false"
          => /\ sel.selected_items = ev.before
             /\ \A i \in Items : item[i].selected <=> i \in ev.before
             /\ ~obs.drop_called

\* An accepted drop of two selected items: on_drop received both, nothing is selected.
C35_Witness ==
    /\ ev # None /\ ev.op = "release"
    /\ obs.last_op = "release_drag"
    /\ obs.end_result = "true"
    /\ obs.drop_called
    /\ Len(obs.drop_arg) = 2
    /\ Cardinality(ev.before) = 2
    /\ sel.selected_items = {}

\* A rejected drop of two selected items: both are still selected.
C35_WitnessRejected ==
    /\ ev # None /\ ev.op = "release"
    /\ obs.last_op = "release_drag"
    /\ obs.end_result = "false"
    /\ Cardinality(ev.before) = 2
    /\ sel.selected_items = ev.before

-----------------------------------------------------------------------------
(* Path independence claims, checked under SpecPath.                        *)

\* Item i as it was when the drag began: its k-th snapshot put back.
FromSnapshot(i, k) ==
    [item[i] EXCEPT !.x = dd.original_states[k].x, !.y = dd.original_states[k].y,
                    !.width = dd.original_states[k].width,
                    !.height = dd.original_states[k].height]

C36_WitnessRepeat ==
    /\ ev # None /\ ev.op = "update_drag"
    /\ ev.prev = ev.pos
    /\ dd.resize_mode = NoHandle
    /\ \E k \in 1..Len(dd.dragged_items) :
          StateOf(item[dd.dragged_items[k]]) # dd.original_states[k]

-----------------------------------------------------------------------------
(* Calls outside a drag, checked under SpecDrag.                            *)

\* C37: when no drag is active, update_drag changes no item geometry and no drag state
\* and does not call can_drop, and end_drag returns False without calling can_drop or
\* on_drop and without changing any item.
C37_NoDragNoEffect ==
    [][ ~dd.dragging
        => /\ obs'.last_op = "update_drag"
              => /\ item' = item
                 /\ dd' = dd
                 /\ \A pos \in DragPoints : update_drag_can_drop_calls(dd, item, pos) = <<>>
           /\ obs'.last_op = "end_drag"
              => /\ item' = item
                 /\ dd' = dd
                 /\ obs'.end_result = "false"
                 /\ obs'.end_can_drop = "none"
                 /\ ~obs'.drop_called ]_vars

\* end_drag called with no drag active although can_drop and on_drop are configured:
\* it returned False and called neither.
C37_Witness ==
    /\ obs.last_op = "end_drag"
    /\ ~dd.dragging
    /\ obs.drags = 0
    /\ dd.can_drop = "set" /\ dd.on_drop = "set"
    /\ obs.end_result = "false"
    /\ obs.end_can_drop = "none"
    /\ ~obs.drop_called

\* update_drag called before any drag, with can_drop configured.
C37_WitnessUpdate ==
    /\ obs.last_op = "update_drag"
    /\ ~dd.dragging
    /\ obs.drags = 0
    /\ dd.can_drop = "set"
    /\ item = InitItems

-----------------------------------------------------------------------------
(* Initial visible range claims, checked under SpecVisible.                 *)

\* C38 as stated: a ruler constructed with explicit visible_start and visible_stop
\* arguments has exactly those values as its initial visible range, also when an
\* argument is 0 (for example window [-50, 50] with visible_start = 0 starts with
\* visible_start = 0, not -50).
C38_Original ==
    (ev # None /\ ev.op = "BaseRuler")
    => /\ ruler.visible_start = ev.visible_start
       /\ ruler.visible_stop = ev.visible_stop

====
